---- MODULE Spec2Model ----
(***************************************************************************)
(* A model of autozig's extraction-and-bridge-generation pipeline.         *)
(*                                                                         *)
(* The repository is a set of build-time generators plus the runtime code  *)
(* they emit.  Each part is modelled as its own state machine over its own *)
(* variables; a specification fixes the variables of the other parts.      *)
(*                                                                         *)
(*   SpecAbi     engine: AutoZigEngine::build in its three modes: ABI      *)
(*               lowering of the foreign source, content hash, compile,    *)
(*               link                                                      *)
(*   SpecLower   macro: native declaration and wrapper call of one         *)
(*               declaration (plain, monomorphized, async, impl method)    *)
(*   SpecMono    macro: expansion of #[monomorphize(...)]                  *)
(*   SpecOpaque  macro: the generated constructor and Drop of an opaque    *)
(*               type, executed                                            *)
(*   SpecScan    engine: the scanner over the host source files            *)
(*   SpecEntry   macro: autozig! and include_zig!, from tokens to output    *)
(*   SpecStream  src/stream.rs: a ZigStream fed through its channel        *)
(*   SpecBox     src/ffi_types.rs: ZigBuffer into ZigBox                   *)
(*   SpecBody    parser: the foreign function an impl method forwards to   *)
(*   SpecAsync   macro: the generated async wrapper, executed; with        *)
(*               SpecAsyncFair the worker threads are scheduled fairly     *)
(***************************************************************************)
EXTENDS Integers, Sequences, FiniteSets, TLC

VARIABLES
    \* ---- engine: AutoZigEngine::build ------------------------------------
    embedded,      \* export functions found in autozig! blocks, in text order
    external,      \* export functions of include_zig! files that exist
    abiMode,       \* CompilationMode the engine ran in, "none" before build
    finalSource,   \* symbol table of the complete source of the latest build
    hash_file,     \* OUT_DIR/.zig_code_hash
    lib_artifact,  \* OUT_DIR/libautozig.a
    build_log,     \* one record per run of AutoZigEngine::build
    \* ---- macro: lowering of one declaration ---------------------------
    rust_sig,      \* the parsed declaration (free function or impl method)
    generator,     \* the generator that handled it, "none" before expansion
    ffi_params,    \* parameters of the generated extern "C" declaration
    ffi_args,      \* arguments of the call in the generated wrapper
    ffi_wrapper,   \* shape of the generated wrapper: fn or async fn, how the
                   \* native call is made, which parameters are copied first
    \* ---- macro: monomorphization of one generic declaration -----------
    mono_tokens,   \* text of the #[monomorphize(...)] token stream
    mono_types,    \* RustFunctionSignature.monomorphize_types
    mono_state,    \* "attr", "parsed", "expanded", "panicked"; "idle" if unused
    mono_decls,    \* ffi_decls of generate_monomorphized_versions
    mono_wrappers, \* wrappers of generate_monomorphized_versions
    \* ---- generated code of one opaque type, at run time ---------------
    has_destructor,\* the impl block declares a #[destructor]
    handles,       \* per handle: state, pointer allocated, inner, exit path
    heap,          \* addresses the foreign allocator has handed out
    dtor_log,      \* calls of the foreign destructor: handle and argument
    \* ---- engine: the source scanner -----------------------------------
    scan_dir,      \* the .rs files under src_dir, in walk order
    scan_mode,     \* CompilationMode of the scanner
    scan_result,   \* what scan / scan_modular returned; NotScanned before
    scan_warnings, \* the warnings written to stderr
    \* ---- generated async wrappers, at run time ------------------------
    async_calls,   \* per call of a wrapper: the caller's future, the task on
                   \* the blocking pool, and what each of them produced
    runtime_up,    \* the tokio runtime has not been shut down
    \* ---- macro: the two entry points -----------------------------------
    macro_input,   \* the tokens handed to autozig! / include_zig!
    macro_config,  \* the AutoZigConfig / IncludeZigConfig parsed from them
    macro_output,  \* what the macro expands to
    \* ---- src/stream.rs: one ZigStream and its channel ---------------------
    stream_state,  \* StreamState behind the mutex
    stream_alive,  \* the ZigStream has not been dropped
    channel,       \* items sent and not yet received
    sender_open,   \* the sender has not been dropped
    sent,          \* every item sent, in send order
    yielded,       \* every item poll_next returned, in order
    last_poll,     \* what the latest poll_next returned
    \* ---- src/ffi_types.rs: ZigBuffer and ZigBox ---------------------------
    vec_data,      \* a Vec<T> about to be handed over, if any
    raw,           \* the ZigBuffer, once there is one
    box_out,       \* what ZigBox::try_new / ZigBox::new produced
    \* ---- parser: the body of one impl method ------------------------------
    method_body,   \* the statements of the method's block
    method_out,    \* what parse_trait_impl made of the method
    \* ---- engine scanner: the tokens of one autozig! invocation -----------
    macro_tokens,  \* node.tokens.to_string()
    extracted,     \* what extract_zig_from_tokens returned
    \* ---- macro: the native declaration of one trait method --------------
    zig_exports,   \* the export functions of config.zig_code, in text order
    trait_method,  \* the method: the function it forwards to, its output
    trait_decl     \* the extern "C" declaration generated for it

abiVars == <<embedded, external, abiMode, finalSource, hash_file, lib_artifact,
            build_log>>
lowerVars == <<rust_sig, generator, ffi_params, ffi_args, ffi_wrapper>>
monoVars == <<mono_tokens, mono_types, mono_state, mono_decls, mono_wrappers>>

opaqueVars == <<has_destructor, handles, heap, dtor_log>>

scanVars == <<scan_dir, scan_mode, scan_result, scan_warnings>>

asyncVars == <<async_calls, runtime_up>>

entryVars == <<macro_input, macro_config, macro_output>>

streamVars ==
    <<stream_state, stream_alive, channel, sender_open, sent, yielded, last_poll>>

boxVars == <<vec_data, raw, box_out>>
bodyVars == <<method_body, method_out>>
tokVars == <<macro_tokens, extracted>>
retVars == <<zig_exports, trait_method, trait_decl>>

vars ==
    <<abiVars, lowerVars, monoVars, opaqueVars, scanVars, asyncVars, entryVars,
      streamVars, boxVars, bodyVars, tokVars, retVars>>

(***************************************************************************)
(* Generic helpers                                                         *)
(***************************************************************************)
Range(s) == {s[i] : i \in 1..Len(s)}

RECURSIVE FlatMap(_, _)
\* concatenation of Op(s[1]), Op(s[2]), ... (Op yields a sequence)
FlatMap(Op(_), s) == IF s = <<>> THEN <<>> ELSE Op(Head(s)) \o FlatMap(Op, Tail(s))

(***************************************************************************)
(* engine/src/lib.rs : Zig types as token sequences                        *)
(*                                                                         *)
(* A type is the sequence of its tokens, so that the code's textual tests  *)
(* (starts_with('['), contains(']'), equality with a primitive name) are   *)
(* computed on the text and not read off a tag.                            *)
(***************************************************************************)
PrimTypes    == {<<"i32">>, <<"f32">>}
StructTypes  == {<<"Vec3">>}
ArrayTypes   == {<<"[", "5", "]", "i32">>}
PointerTypes == {<<"*", "Vec3">>, <<"[", "*", "]", "u8">>, <<"?", "*", "Vec3">>}
ZigTypes     == PrimTypes \cup StructTypes \cup ArrayTypes \cup PointerTypes

\* the whitelist of needs_abi_wrapper, lib.rs:637-658
PrimitiveWhitelist ==
    { <<"void">>, <<"i8">>, <<"i16">>, <<"i32">>, <<"i64">>, <<"i128">>,
      <<"u8">>, <<"u16">>, <<"u32">>, <<"u64">>, <<"u128">>, <<"usize">>,
      <<"isize">>, <<"f32">>, <<"f64">>, <<"bool">>, <<"c_int">>,
      <<"c_uint">>, <<"c_void">> }

StartsWithBracket(t) == Len(t) > 0 /\ t[1] = "["
ContainsCloseBracket(t) == \E i \in 1..Len(t) : t[i] = "]"

\* needs_abi_wrapper: arrays always, whitelisted primitives never, all else yes
needs_abi_wrapper(zig_type) ==
    IF StartsWithBracket(zig_type) /\ ContainsCloseBracket(zig_type) THEN TRUE
    ELSE IF zig_type \in PrimitiveWhitelist THEN FALSE
    ELSE TRUE

\* must_use_wrapper: only the bracket test
must_use_wrapper(zig_type) ==
    StartsWithBracket(zig_type) /\ ContainsCloseBracket(zig_type)

(***************************************************************************)
(* Export functions.  A name is a token sequence too: <<"f">> is `f`,      *)
(* <<"f","_impl">> is `f_impl`, <<"f","__autozig_ptr">> is f__autozig_ptr. *)
(* `spaced` records whether the text reads "name (" or "name(".            *)
(***************************************************************************)
EmbNames == {"f", "g"}
ExtNames == {"h"}
NameIdx(n) == CASE n = "f" -> 1 [] n = "g" -> 2 [] OTHER -> 3

ParamLists ==
    { <<>>,
      << [name |-> "v", type |-> <<"Vec3">>], [name |-> "k", type |-> <<"f32">>] >> }

ExportFns(names, types, spacings, params) ==
    [name : {<<n>> : n \in names}, params : params, return_type : types,
     spaced : spacings]

\* f ranges over every return type, spacing and parameter list; the second
\* embedded function g and the external function h over the by-value types
EmbFns == ExportFns({"f"}, ZigTypes, BOOLEAN, ParamLists)
            \cup ExportFns(EmbNames \ {"f"},
                           PrimTypes \cup StructTypes \cup ArrayTypes,
                           {FALSE}, {<<>>})
ExtFns == ExportFns(ExtNames, PrimTypes \cup StructTypes \cup ArrayTypes,
                    {FALSE}, {<<>>})

\* code texts: export names are unique in valid Zig; listed in name order
Codes(fns) ==
    {<<>>} \cup {<<a>> : a \in fns}
           \cup {<<p[1], p[2]>> : p \in {q \in fns \X fns :
                                   NameIdx(q[1].name[1]) < NameIdx(q[2].name[1])}}

\* extract_export_functions / parse_export_function: every "export fn" of the
\* text, with its name, parameter text and return type
extract_export_functions(code) ==
    [i \in 1..Len(code) |->
        [name |-> code[i].name, params |-> code[i].params,
         return_type |-> code[i].return_type]]

\* an entry of the symbol table of a foreign source
Entry(name, export, ret, origin, calls, params, args) ==
    [name |-> name, export |-> export, ret |-> ret, origin |-> origin,
     calls |-> calls, params |-> params, args |-> args]

\* the user's own text: one exported by-value entry per export fn
UserEntry(fn) ==
    Entry(fn.name, TRUE, fn.return_type, "user", <<>>,
          [i \in 1..Len(fn.params) |-> fn.params[i]], <<>>)
UserEntries(code) == [i \in 1..Len(code) |-> UserEntry(code[i])]

\* convert_params_to_ptrs, forwarding a struct parameter without `.*`
convert_params_to_ptrs_no_deref(params) ==
    [wrapper_params |->
        [i \in 1..Len(params) |->
            IF needs_abi_wrapper(params[i].type)
            THEN [name |-> params[i].name, type |-> <<"*const">> \o params[i].type]
            ELSE params[i]],
     forwarding_args |-> [i \in 1..Len(params) |-> <<params[i].name>>]]

\* convert_params_to_ptrs: (wrapper_params, forwarding_args)
convert_params_to_ptrs(params) ==
    [wrapper_params |->
        [i \in 1..Len(params) |->
            IF needs_abi_wrapper(params[i].type)
            THEN [name |-> params[i].name, type |-> <<"*const">> \o params[i].type]
            ELSE params[i]],
     forwarding_args |->
        [i \in 1..Len(params) |->
            IF needs_abi_wrapper(params[i].type)
            THEN <<params[i].name, ".*">>
            ELSE <<params[i].name>>]]

\* generate_ptr_wrapper: export fn <name>__autozig_ptr(..) *const T, calls <name>
generate_ptr_wrapper(func) ==
    LET c == convert_params_to_ptrs(func.params)
    IN  Entry(func.name \o <<"__autozig_ptr">>, TRUE,
              <<"*const">> \o func.return_type, "ptr_wrapper", func.name,
              c.wrapper_params, c.forwarding_args)

\* generate_array_pointer_wrapper: export fn <name>(..) *const T, calls <name>_impl
generate_array_pointer_wrapper(func) ==
    LET c == convert_params_to_ptrs(func.params)
    IN  Entry(func.name, TRUE, <<"*const">> \o func.return_type,
              "array_wrapper", func.name \o <<"_impl">>,
              c.wrapper_params, c.forwarding_args)

\* rename_functions_to_impl: for each name, "export fn name (" if the text has
\* it, else "export fn name(", becomes "fn name_impl (" / "fn name_impl("
RECURSIVE rename_functions_to_impl(_, _)
rename_functions_to_impl(entries, function_names) ==
    IF function_names = <<>> THEN entries
    ELSE
      LET fn_name == Head(function_names)
          has_space == \E i \in 1..Len(entries) :
                          /\ entries[i].export
                          /\ entries[i].name = fn_name
                          /\ entries[i].spaced
          hit(e) == e.export /\ e.name = fn_name /\ e.spaced = has_space
          renamed == [i \in 1..Len(entries) |->
                        IF hit(entries[i])
                        THEN [entries[i] EXCEPT !.name = fn_name \o <<"_impl">>,
                                                !.export = FALSE]
                        ELSE entries[i]]
      IN  rename_functions_to_impl(renamed, Tail(function_names))

\* the text of one code as entries that still carry their spacing
SpacedEntries(code) ==
    [i \in 1..Len(code) |->
        [name |-> code[i].name, export |-> TRUE, spaced |-> code[i].spaced]]

\* wrapper emitted by generate_abi_lowering_with_modified_code for one function
LoweringWrapper(export_fn) ==
    IF needs_abi_wrapper(export_fn.return_type)
    THEN IF must_use_wrapper(export_fn.return_type)
         THEN <<generate_array_pointer_wrapper(export_fn)>>
         ELSE <<generate_ptr_wrapper(export_fn)>>
    ELSE <<>>

\* names pushed to functions_to_rename
ToRename(export_fn) ==
    IF needs_abi_wrapper(export_fn.return_type)
       /\ must_use_wrapper(export_fn.return_type)
    THEN <<export_fn.name>> ELSE <<>>

\* generate_abi_lowering_with_modified_code on the single merged text:
\* (modified_code, wrappers)
generate_abi_lowering_with_modified_code(code) ==
    LET export_fns == extract_export_functions(code)
        functions_to_rename == FlatMap(ToRename, export_fns)
        renamed == rename_functions_to_impl(SpacedEntries(code), functions_to_rename)
        user == UserEntries(code)
    IN  [modified_code |->
            [i \in 1..Len(code) |->
                [user[i] EXCEPT !.name = renamed[i].name,
                                !.export = renamed[i].export]],
         wrappers |-> FlatMap(LoweringWrapper, export_fns)]

\* wrapper emitted by generate_abi_lowering_wrappers for one function
ModularWrapper(export_fn) ==
    IF needs_abi_wrapper(export_fn.return_type)
    THEN <<generate_ptr_wrapper(export_fn)>> ELSE <<>>

\* generate_abi_lowering_wrappers: a __autozig_ptr wrapper for every function
\* whose return type needs one, arrays included
generate_abi_lowering_wrappers(code) ==
    FlatMap(ModularWrapper, extract_export_functions(code))

\* an imported module's exports, forced into the binary by the comptime block
ImportedEntry(fn) == [UserEntry(fn) EXCEPT !.origin = "import"]
ImportedEntries(code) == [i \in 1..Len(code) |-> ImportedEntry(code[i])]

\* generate_main_module_with_files: imports, embedded code, then the wrappers
\* of the embedded code
generate_main_module_with_files(embedded_code, zig_files) ==
    ImportedEntries(zig_files) \o UserEntries(embedded_code)
        \o generate_abi_lowering_wrappers(embedded_code)

\* scanner merge_code: embedded text followed by the external files' text
merge_code(emb, ext) == emb \o ext

\* build_merged up to the text that is hashed and compiled
MergedSource(emb, ext) ==
    LET zig_code == merge_code(emb, ext)
        r == generate_abi_lowering_with_modified_code(zig_code)
    IN  r.modified_code \o r.wrappers

NoSource == <<>>

\* the output directory: a file is absent or holds a value
NoFile == [exists |-> FALSE]
\* format!("{:x}", Sha256::digest(&complete_code)), taken as collision-free
Sha256Digest(code) == [exists |-> TRUE, sha256 |-> code]
\* libautozig.a as the compiler leaves it after compiling `code`
Artifact(code) == [exists |-> TRUE, compiled_from |-> code]

\* link_library: the two cargo directives
LinkDirectives ==
    <<"cargo:rustc-link-search=native=OUT_DIR", "cargo:rustc-link-lib=static=autozig">>

MaxBuilds == 3

\* what one run of AutoZigEngine::build did
BuildRecord(mode, compiled, linked, result) ==
    [mode |-> mode, zig_code |-> <<embedded, external>>,
     compiled |-> compiled, linked |-> linked, result |-> result]

AbiInit ==
    /\ embedded \in Codes(EmbFns)
    /\ external \in Codes(ExtFns)
    /\ abiMode = "none"
    /\ finalSource = NoSource
    /\ hash_file = NoFile
    /\ lib_artifact = NoFile
    /\ build_log = <<>>

AbiIdle ==
    /\ embedded = <<>>
    /\ external = <<>>
    /\ abiMode = "none"
    /\ finalSource = NoSource
    /\ hash_file = NoFile
    /\ lib_artifact = NoFile
    /\ build_log = <<>>

\* compile_with_target_and_src(..)?; fs::write(&hash_file, &code_hash): the
\* hash file is written only past the `?`, when the compiler succeeded
hash_after_compile_eager(success, old_hash, code_hash) == code_hash
hash_after_compile(success, old_hash, code_hash) ==
    IF success THEN code_hash ELSE old_hash

\* AutoZigEngine::build_merged.  Nothing to do when no Zig code was found;
\* compilation is skipped when the stored hash equals the hash of the
\* complete code and the library exists; otherwise the compiler runs, and the
\* hash is stored and the library linked only if it succeeds.
build_merged ==
    /\ Len(build_log) < MaxBuilds
    /\ abiMode' = "merged"
    /\ UNCHANGED <<embedded, external, lowerVars, monoVars, opaqueVars, scanVars,
                   asyncVars, entryVars, streamVars, boxVars, bodyVars,
                   tokVars, retVars>>
    /\ IF merge_code(embedded, external) = <<>>
       THEN /\ finalSource' = NoSource
            /\ build_log' = Append(build_log,
                                BuildRecord("merged", FALSE, <<>>, "ok"))
            /\ UNCHANGED <<hash_file, lib_artifact>>
       ELSE LET complete_code == MergedSource(embedded, external)
                code_hash == Sha256Digest(complete_code)
            IN  /\ finalSource' = complete_code
                /\ IF hash_file.exists /\ lib_artifact.exists
                        /\ hash_file = code_hash
                   THEN /\ build_log' = Append(build_log,
                               BuildRecord("merged", FALSE, LinkDirectives, "ok"))
                        /\ UNCHANGED <<hash_file, lib_artifact>>
                   ELSE \E success \in BOOLEAN :
                          /\ hash_file' =
                                hash_after_compile(success, hash_file, code_hash)
                          /\ IF success
                             THEN /\ lib_artifact' = Artifact(complete_code)
                                  /\ build_log' = Append(build_log,
                                         BuildRecord("merged", TRUE, LinkDirectives, "ok"))
                             ELSE /\ build_log' = Append(build_log,
                                         BuildRecord("merged", TRUE, <<>>, "err"))
                                  /\ UNCHANGED lib_artifact

\* the steps the two modular modes share once the scan found code: the main
\* module is generated and compiled on every run, the library is linked only
\* if the compiler succeeds; the hash file is neither read nor written
CompileMainModule(mode) ==
    IF embedded = <<>> /\ external = <<>>
    THEN /\ finalSource' = NoSource
         /\ build_log' = Append(build_log, BuildRecord(mode, FALSE, <<>>, "ok"))
         /\ UNCHANGED lib_artifact
    ELSE LET main_zig == generate_main_module_with_files(embedded, external)
         IN  /\ finalSource' = main_zig
             /\ \E success \in BOOLEAN :
                   IF success
                   THEN /\ lib_artifact' = Artifact(main_zig)
                        /\ build_log' = Append(build_log,
                               BuildRecord(mode, TRUE, LinkDirectives, "ok"))
                   ELSE /\ build_log' = Append(build_log,
                               BuildRecord(mode, TRUE, <<>>, "err"))
                        /\ UNCHANGED lib_artifact

\* AutoZigEngine::build_modular_import (compile_with_target_and_src)
build_modular_import ==
    /\ Len(build_log) < MaxBuilds
    /\ abiMode' = "modular_import"
    /\ CompileMainModule("modular_import")
    /\ UNCHANGED <<embedded, external, hash_file, lowerVars, monoVars, opaqueVars, scanVars,
                   asyncVars, entryVars, streamVars, boxVars, bodyVars,
                   tokVars, retVars>>

\* AutoZigEngine::build_modular_buildzig (compile_with_buildzig)
build_modular_buildzig ==
    /\ Len(build_log) < MaxBuilds
    /\ abiMode' = "modular_buildzig"
    /\ CompileMainModule("modular_buildzig")
    /\ UNCHANGED <<embedded, external, hash_file, lowerVars, monoVars, opaqueVars, scanVars,
                   asyncVars, entryVars, streamVars, boxVars, bodyVars,
                   tokVars, retVars>>

\* between two builds the developer removes the last autozig! block of the
\* scanned sources (cargo reruns the build script: rerun-if-changed)
edit_source ==
    /\ build_log # <<>> /\ Len(build_log) < MaxBuilds
    /\ embedded # <<>>
    /\ embedded' = SubSeq(embedded, 1, Len(embedded) - 1)
    /\ UNCHANGED <<external, abiMode, finalSource, hash_file, lib_artifact,
                   build_log, lowerVars, monoVars, opaqueVars, scanVars,
                   asyncVars, entryVars, streamVars, boxVars, bodyVars,
                   tokVars, retVars>>

AbiNext ==
    build_merged \/ build_modular_import \/ build_modular_buildzig \/ edit_source

(***************************************************************************)
(* macro/src/lib.rs : lowering of a declaration to a native declaration    *)
(* and a wrapper call.                                                     *)
(*                                                                         *)
(* Identifiers and type names are character sequences.  A Rust type is a   *)
(* tree over the shapes the code matches on: Path, Reference, Slice, and   *)
(* one other shape (a fixed array [T; 4]) that no match arm looks into.    *)
(***************************************************************************)
MaxParams == 2

N_T     == <<"T">>
N_i32   == <<"i", "3", "2">>
N_f64   == <<"f", "6", "4">>
N_u8    == <<"u", "8">>
N_str   == <<"s", "t", "r">>
N_usize == <<"u", "s", "i", "z", "e">>
N_void  == <<"c", "_", "v", "o", "i", "d">>

TPath(n)     == [k |-> "path", name |-> n]
TRef(m, e)   == [k |-> "ref", mut |-> m, elem |-> e]
TSlice(e)    == [k |-> "slice", elem |-> e]
TArray(e)    == [k |-> "array", elem |-> e]
TPtr(m, e)   == [k |-> "ptr", mut |-> m, elem |-> e]

NoOutput == [k |-> "unit"]

ElemTypes == {TPath(N_i32), TPath(N_T)}
SliceRefTypes == {TRef(m, TSlice(e)) : m \in BOOLEAN, e \in ElemTypes}
StrRefTypes == {TRef(m, TPath(N_str)) : m \in BOOLEAN}
RustTypes ==
    ElemTypes \cup SliceRefTypes \cup StrRefTypes
        \cup {TRef(FALSE, TPath(N_T)), TArray(TPath(N_T))}

\* a typed parameter: its pattern is an identifier (named by position) or not
PName(i) == <<"p", i>>
Params == [ident : BOOLEAN, ty : RustTypes]
ParamSeqs == UNION {[1..n -> Params] : n \in 0..MaxParams}

\* is_slice_or_str_ref: (is_mut, element type) of &[T] / &mut [T] / &str /
\* &mut str; NoSlice otherwise.  str has no element type.
NoSlice == [slice |-> FALSE]
is_slice_or_str_ref(ty) ==
    IF ty.k = "ref"
    THEN IF ty.elem.k = "path" /\ ty.elem.name = N_str
         THEN [slice |-> TRUE, is_mut |-> ty.mut, has_elem |-> FALSE]
         ELSE IF ty.elem.k = "slice"
              THEN [slice |-> TRUE, is_mut |-> ty.mut, has_elem |-> TRUE,
                    elem |-> ty.elem.elem]
              ELSE NoSlice
    ELSE NoSlice

\* the pointer type a slice or str reference is lowered to
PtrTypeOf(s) == TPtr(s.is_mut, IF s.has_elem THEN s.elem ELSE TPath(N_u8))

\* a native parameter / a call argument; src is the index of the source
\* parameter it was generated from (0 for the receiver)
NativeParam(src, name, ty) == [src |-> src, name |-> name, ty |-> ty]
CallArg(src, expr, of) == [src |-> src, expr |-> expr, of |-> of]

\* native parameters of one source parameter in the free-function generators
\* (generate_single_ffi_declaration, generate_ffi_declaration_from_sig,
\* generate_ffi_declarations_for_include): a non-identifier pattern is skipped
DeclOfParam(inputs, i) ==
    LET p == inputs[i]
        s == is_slice_or_str_ref(p.ty)
    IN  IF ~p.ident THEN <<>>
        ELSE IF s.slice
             THEN << NativeParam(i, <<PName(i), "_ptr">>, PtrTypeOf(s)),
                     NativeParam(i, <<PName(i), "_len">>, TPath(N_usize)) >>
             ELSE << NativeParam(i, <<PName(i)>>, p.ty) >>

\* native parameters of one source parameter in
\* generate_trait_ffi_declarations: only a slice with a non-identifier pattern
\* is skipped; any other parameter is declared under its pattern
TraitDeclOfParam(inputs, i) ==
    LET p == inputs[i]
        s == is_slice_or_str_ref(p.ty)
    IN  IF s.slice
        THEN IF ~p.ident THEN <<>>
             ELSE << NativeParam(i, <<PName(i), "_ptr">>, PtrTypeOf(s)),
                     NativeParam(i, <<PName(i), "_len">>, TPath(N_usize)) >>
        ELSE << NativeParam(i, IF p.ident THEN <<PName(i)>> ELSE <<"_">>, p.ty) >>

\* call arguments of one source parameter in generate_single_safe_wrapper,
\* generate_wrapper_from_sig and generate_trait_implementations
ArgsOfParam(inputs, i) ==
    LET p == inputs[i]
        s == is_slice_or_str_ref(p.ty)
    IN  IF ~p.ident THEN <<>>
        ELSE IF s.slice
             THEN << CallArg(i, IF s.is_mut THEN "as_mut_ptr" ELSE "as_ptr", PName(i)),
                     CallArg(i, "len", PName(i)) >>
             ELSE << CallArg(i, "value", PName(i)) >>

\* call arguments of one source parameter in generate_async_ffi_and_wrapper:
\* the slice is copied with to_vec() and the copy's as_ptr() is passed
AsyncArgsOfParam(inputs, i) ==
    LET p == inputs[i]
        s == is_slice_or_str_ref(p.ty)
    IN  IF ~p.ident THEN <<>>
        ELSE IF s.slice
             THEN << CallArg(i, "as_ptr", PName(i)),
                     CallArg(i, "len", PName(i)) >>
             ELSE << CallArg(i, "value", PName(i)) >>

RECURSIVE ConcatFrom(_, _, _)
\* Op(inputs, i) \o Op(inputs, i+1) \o ... over the parameters in order
ConcatFrom(Op(_, _), inputs, i) ==
    IF i > Len(inputs) THEN <<>>
    ELSE Op(inputs, i) \o ConcatFrom(Op, inputs, i + 1)

generate_single_ffi_declaration(sig) == ConcatFrom(DeclOfParam, sig.inputs, 1)
generate_single_safe_wrapper(sig) == ConcatFrom(ArgsOfParam, sig.inputs, 1)
generate_ffi_declaration_from_sig(sig) == ConcatFrom(DeclOfParam, sig.inputs, 1)
generate_wrapper_from_sig(sig) == ConcatFrom(ArgsOfParam, sig.inputs, 1)
AsyncWrapperArgs(sig) == ConcatFrom(AsyncArgsOfParam, sig.inputs, 1)

\* substitute_type_recursive: Path equal to the generic name is replaced;
\* Reference and Slice are descended into; every other shape is cloned
RECURSIVE substitute_type_recursive(_, _, _)
substitute_type_recursive(ty, generic_name, concrete_ty) ==
    CASE ty.k = "path" ->
            IF ty.name = generic_name THEN concrete_ty ELSE ty
      [] ty.k = "ref" ->
            [ty EXCEPT !.elem =
                substitute_type_recursive(ty.elem, generic_name, concrete_ty)]
      [] ty.k = "slice" ->
            [ty EXCEPT !.elem =
                substitute_type_recursive(ty.elem, generic_name, concrete_ty)]
      [] OTHER -> ty

\* substitute_generic_type: the first generic parameter is substituted in
\* every parameter type and in the return type; the generics are removed from
\* the signature
substitute_generic_type(sig, concrete_type) ==
    IF sig.generic_params = <<>> THEN sig
    ELSE [sig EXCEPT
            !.generic_params = <<>>,
            !.inputs = [i \in 1..Len(sig.inputs) |->
                [sig.inputs[i] EXCEPT !.ty =
                    substitute_type_recursive(sig.inputs[i].ty,
                        sig.generic_params[1], TPath(concrete_type))]],
            !.output = IF sig.output = NoOutput THEN NoOutput
                       ELSE substitute_type_recursive(sig.output,
                                sig.generic_params[1], TPath(concrete_type))]

\* handle_receiver_type: the self pointer parameter of the declaration
handle_receiver_type(sig) ==
    CASE sig.receiver = "mut" ->
            <<NativeParam(0, <<"self_ptr">>, TPtr(TRUE, TPath(N_void)))>>
      [] sig.receiver = "ref" ->
            <<NativeParam(0, <<"self_ptr">>, TPtr(FALSE, TPath(N_void)))>>
      [] OTHER -> <<>>

\* inject_self_pointer: the first call argument; with no receiver an empty
\* token stream is returned, and the caller pushes it all the same
inject_self_pointer(sig) ==
    CASE sig.receiver = "mut" -> <<CallArg(0, "inner_as_mut_ptr", <<"self">>)>>
      [] sig.receiver = "ref" -> <<CallArg(0, "inner_as_const_ptr", <<"self">>)>>
      [] OTHER -> <<CallArg(0, "empty", <<"self">>)>>

\* generate_trait_ffi_declarations, one method
TraitFfiParams(sig) ==
    (IF sig.is_opaque THEN handle_receiver_type(sig) ELSE <<>>)
        \o ConcatFrom(TraitDeclOfParam, sig.inputs, 1)

\* generate_trait_implementations, one method.  The parser always stores the
\* method body, so a call is generated for opaque types only; for the others
\* the user's own body is emitted inside `unsafe`.
UserBody == <<CallArg(0, "original_body", <<"self">>)>>
TraitCallArgs(sig) ==
    IF sig.is_opaque
    THEN inject_self_pointer(sig) \o ConcatFrom(ArgsOfParam, sig.inputs, 1)
    ELSE UserBody

\* the declarations the parser hands to the generators
OutputTypes == {NoOutput, TPath(N_T)}
FreeSigs ==
    [kind : {"fn"}, is_async : BOOLEAN, generic_params : {<<>>, <<N_T>>},
     monomorphize_types : {<<>>, <<N_i32, N_f64>>}, receiver : {"none"},
     is_opaque : {FALSE}, inputs : ParamSeqs, output : OutputTypes]
MethodSigs ==
    [kind : {"method"}, is_async : {FALSE}, generic_params : {<<>>},
     monomorphize_types : {<<>>}, receiver : {"none", "ref", "mut"},
     is_opaque : BOOLEAN, inputs : ParamSeqs, output : OutputTypes]

NoSig == [kind |-> "none"]

\* the wrapper the quote! of a generator emits: `pub fn` or `pub async fn`,
\* the native call made in place or inside tokio::task::spawn_blocking, and
\* the parameters shadowed by `let p = p.to_vec();` before the call
Wrapper(asyncness, dispatch, captures) ==
    [asyncness |-> asyncness, dispatch |-> dispatch, captures |-> captures]
NoWrapper == Wrapper("none", "none", <<>>)

\* generate_async_ffi_and_wrapper, param_captures: the identifier-named
\* slice and str references, in order
AsyncCaptures(sig) ==
    SelectSeq([i \in 1..Len(sig.inputs) |-> i],
              LAMBDA i : sig.inputs[i].ident
                         /\ is_slice_or_str_ref(sig.inputs[i].ty).slice)

LowerInit ==
    /\ rust_sig \in FreeSigs \cup MethodSigs
    /\ generator = "none"
    /\ ffi_params = <<>>
    /\ ffi_args = <<>>
    /\ ffi_wrapper = NoWrapper

LowerIdle ==
    /\ rust_sig = NoSig
    /\ generator = "none"
    /\ ffi_params = <<>>
    /\ ffi_args = <<>>
    /\ ffi_wrapper = NoWrapper

IsMono(sig) == sig.generic_params # <<>> /\ sig.monomorphize_types # <<>>

\* generate_with_monomorphization, first branch: one monomorphized version
\* (the loop of generate_monomorphized_versions emits one per listed type)
GenMonomorphized ==
    /\ generator = "none" /\ rust_sig.kind = "fn"
    /\ IsMono(rust_sig)
    /\ \E t \in 1..Len(rust_sig.monomorphize_types) :
          LET mono_sig == substitute_generic_type(rust_sig,
                              rust_sig.monomorphize_types[t])
          IN  /\ ffi_params' = generate_ffi_declaration_from_sig(mono_sig)
              /\ ffi_args' = generate_wrapper_from_sig(mono_sig)
    /\ ffi_wrapper' = Wrapper("fn", "direct", <<>>)
    /\ generator' = "mono"
    /\ UNCHANGED <<rust_sig, abiVars, monoVars, opaqueVars, scanVars, asyncVars,
                   entryVars, streamVars, boxVars, bodyVars, tokVars,
                   retVars>>

\* generate_with_monomorphization, second branch: generate_async_ffi_and_wrapper
GenAsync ==
    /\ generator = "none" /\ rust_sig.kind = "fn"
    /\ ~IsMono(rust_sig) /\ rust_sig.is_async
    /\ ffi_params' = generate_ffi_declaration_from_sig(rust_sig)
    /\ ffi_args' = AsyncWrapperArgs(rust_sig)
    /\ ffi_wrapper' = Wrapper("async fn", "spawn_blocking", AsyncCaptures(rust_sig))
    /\ generator' = "async"
    /\ UNCHANGED <<rust_sig, abiVars, monoVars, opaqueVars, scanVars, asyncVars,
                   entryVars, streamVars, boxVars, bodyVars, tokVars,
                   retVars>>

\* generate_with_monomorphization, third branch: the regular function
GenPlain ==
    /\ generator = "none" /\ rust_sig.kind = "fn"
    /\ ~IsMono(rust_sig) /\ ~rust_sig.is_async
    /\ ffi_params' = generate_single_ffi_declaration(rust_sig)
    /\ ffi_args' = generate_single_safe_wrapper(rust_sig)
    /\ ffi_wrapper' = Wrapper("fn", "direct", <<>>)
    /\ generator' = "plain"
    /\ UNCHANGED <<rust_sig, abiVars, monoVars, opaqueVars, scanVars, asyncVars,
                   entryVars, streamVars, boxVars, bodyVars, tokVars,
                   retVars>>

\* generate_trait_ffi_declarations + generate_trait_implementations
GenTraitMethod ==
    /\ generator = "none" /\ rust_sig.kind = "method"
    /\ ffi_params' = TraitFfiParams(rust_sig)
    /\ ffi_args' = TraitCallArgs(rust_sig)
    /\ ffi_wrapper' = Wrapper("fn", IF rust_sig.is_opaque THEN "direct"
                                     ELSE "original_body", <<>>)
    /\ generator' = "trait"
    /\ UNCHANGED <<rust_sig, abiVars, monoVars, opaqueVars, scanVars, asyncVars,
                   entryVars, streamVars, boxVars, bodyVars, tokVars,
                   retVars>>

LowerNext == GenMonomorphized \/ GenAsync \/ GenPlain \/ GenTraitMethod

(***************************************************************************)
(* parser/src/lib.rs, macro/src/lib.rs : #[monomorphize(T1, T2, ...)]      *)
(*                                                                         *)
(* The attribute's token stream is rendered to text, split at commas, and  *)
(* every listed type yields one declaration and one wrapper under a        *)
(* mangled name.  Text is a sequence of characters.                        *)
(***************************************************************************)
MaxMonoTypes == 3

\* renderings of single types as the token stream prints them.  A path is
\* printed "a::b" or "a :: b" depending on the token printer in use.
MonoItems ==
    { N_i32, N_f64,
      <<"a", ":", ":", "b">>, <<"a", " ", ":", ":", " ", "b">>,
      <<"a", "_", "b">>, <<"&", "u", "8">>, <<>> }

IdentChars ==
    {"a", "b", "f", "i", "m", "s", "u", "2", "3", "4", "6", "8", "_"}

RECURSIVE JoinComma(_)
\* the items separated by ", "
JoinComma(items) ==
    IF items = <<>> THEN <<>>
    ELSE IF Len(items) = 1 THEN items[1]
    ELSE items[1] \o <<",", " ">> \o JoinComma(Tail(items))

MonoTokenStrings ==
    {JoinComma(items) :
        items \in UNION {[1..n -> MonoItems] : n \in 0..MaxMonoTypes}}

RECURSIVE SplitComma(_)
\* str::split(','): the pieces between commas, empty pieces included
SplitComma(str) ==
    IF \A i \in 1..Len(str) : str[i] # ","
    THEN <<str>>
    ELSE LET i == CHOOSE i \in 1..Len(str) :
                     str[i] = "," /\ \A j \in 1..(i - 1) : str[j] # ","
         IN  <<SubSeq(str, 1, i - 1)>> \o SplitComma(SubSeq(str, i + 1, Len(str)))

RECURSIVE TrimStart(_)
TrimStart(str) ==
    IF str # <<>> /\ Head(str) = " " THEN TrimStart(Tail(str)) ELSE str

RECURSIVE TrimEnd(_)
TrimEnd(str) ==
    IF str # <<>> /\ str[Len(str)] = " "
    THEN TrimEnd(SubSeq(str, 1, Len(str) - 1)) ELSE str

\* str::trim
Trim(str) == TrimEnd(TrimStart(str))

\* extract_monomorphize_types: split(',') . map(trim) . filter(non-empty)
extract_monomorphize_types(tokens_str) ==
    LET pieces == SplitComma(tokens_str)
        trimmed == [i \in 1..Len(pieces) |-> Trim(pieces[i])]
    IN  SelectSeq(trimmed, LAMBDA piece : piece # <<>>)

RECURSIVE replace_path_sep(_)
\* mono_type.replace("::", "_")
replace_path_sep(str) ==
    IF Len(str) < 2 THEN str
    ELSE IF str[1] = ":" /\ str[2] = ":"
         THEN <<"_">> \o replace_path_sep(SubSeq(str, 3, Len(str)))
         ELSE <<str[1]>> \o replace_path_sep(Tail(str))

\* format!("{}_{}", base_name, mono_type.replace("::", "_"))
MangledName(base_name, mono_type) ==
    base_name \o <<"_">> \o replace_path_sep(mono_type)

\* syn::Ident::new panics unless the text is an identifier
ValidIdent(name) ==
    name # <<>> /\ \A i \in 1..Len(name) : name[i] \in IdentChars

\* examples/generics: fn sum<T>(data: &[T]) -> T
MonoBaseName == <<"s", "u", "m">>
MonoBaseSig ==
    [kind |-> "fn", is_async |-> FALSE, generic_params |-> <<N_T>>,
     monomorphize_types |-> <<>>, receiver |-> "none", is_opaque |-> FALSE,
     inputs |-> <<[ident |-> TRUE, ty |-> TRef(FALSE, TSlice(TPath(N_T)))]>>,
     output |-> TPath(N_T)]

\* generate_monomorphized_versions: the declaration / wrapper pushed for one
\* listed type
MonoDecl(mono_type) ==
    LET mono_sig == substitute_generic_type(MonoBaseSig, mono_type)
    IN  [name |-> MangledName(MonoBaseName, mono_type),
         params |-> generate_ffi_declaration_from_sig(mono_sig),
         output |-> mono_sig.output]
MonoWrapper(mono_type) ==
    LET mono_sig == substitute_generic_type(MonoBaseSig, mono_type)
    IN  [name |-> MangledName(MonoBaseName, mono_type),
         args |-> generate_wrapper_from_sig(mono_sig)]

MonoInit ==
    /\ mono_tokens \in MonoTokenStrings
    /\ mono_types = <<>>
    /\ mono_state = "attr"
    /\ mono_decls = <<>>
    /\ mono_wrappers = <<>>

MonoIdle ==
    /\ mono_tokens = <<>>
    /\ mono_types = <<>>
    /\ mono_state = "idle"
    /\ mono_decls = <<>>
    /\ mono_wrappers = <<>>

\* parse_function_signature: the attribute is read into monomorphize_types
ParseMonomorphizeAttr ==
    /\ mono_state = "attr"
    /\ mono_types' = extract_monomorphize_types(mono_tokens)
    /\ mono_state' = "parsed"
    /\ UNCHANGED <<mono_tokens, mono_decls, mono_wrappers, abiVars, lowerVars, opaqueVars, scanVars,
                   asyncVars, entryVars, streamVars, boxVars, bodyVars,
                   tokVars, retVars>>

\* generate_monomorphized_versions, every mangled name an identifier
ExpandMonomorphized ==
    /\ mono_state = "parsed" /\ mono_types # <<>>
    /\ \A t \in 1..Len(mono_types) :
          ValidIdent(MangledName(MonoBaseName, mono_types[t]))
    /\ mono_decls' = [t \in 1..Len(mono_types) |-> MonoDecl(mono_types[t])]
    /\ mono_wrappers' = [t \in 1..Len(mono_types) |-> MonoWrapper(mono_types[t])]
    /\ mono_state' = "expanded"
    /\ UNCHANGED <<mono_tokens, mono_types, abiVars, lowerVars, opaqueVars, scanVars,
                   asyncVars, entryVars, streamVars, boxVars, bodyVars,
                   tokVars, retVars>>

\* generate_monomorphized_versions, Ident::new panics: the expansion aborts
\* and nothing is emitted
ExpandPanics ==
    /\ mono_state = "parsed" /\ mono_types # <<>>
    /\ \E t \in 1..Len(mono_types) :
          ~ValidIdent(MangledName(MonoBaseName, mono_types[t]))
    /\ mono_state' = "panicked"
    /\ UNCHANGED <<mono_tokens, mono_types, mono_decls, mono_wrappers,
                   abiVars, lowerVars, opaqueVars, scanVars, asyncVars,
                   entryVars, streamVars, boxVars, bodyVars, tokVars,
                   retVars>>

\* generate_with_monomorphization with an empty list: the generic signature
\* goes to the regular generator unsubstituted
ExpandUnlisted ==
    /\ mono_state = "parsed" /\ mono_types = <<>>
    /\ mono_decls' = <<[name |-> MonoBaseName,
                        params |-> generate_single_ffi_declaration(MonoBaseSig),
                        output |-> MonoBaseSig.output]>>
    /\ mono_wrappers' = <<[name |-> MonoBaseName,
                           args |-> generate_single_safe_wrapper(MonoBaseSig)]>>
    /\ mono_state' = "expanded"
    /\ UNCHANGED <<mono_tokens, mono_types, abiVars, lowerVars, opaqueVars, scanVars,
                   asyncVars, entryVars, streamVars, boxVars, bodyVars,
                   tokVars, retVars>>

MonoNext ==
    ParseMonomorphizeAttr \/ ExpandMonomorphized \/ ExpandPanics \/ ExpandUnlisted

(***************************************************************************)
(* macro/src/lib.rs : generated code of an opaque type, executed.          *)
(*                                                                         *)
(* The struct holds `inner: NonNull<c_void>`; the constructor wraps the    *)
(* pointer the foreign allocation function returns; Drop passes inner to   *)
(* the foreign destructor.  Rust runs Drop::drop once when the owner of a  *)
(* value goes out of scope, whichever way the scope is left.               *)
(***************************************************************************)
HandleIds == {"h1", "h2"}
NullPtr == "null"
Addrs == {"0x10", "0x20"}
ExitPaths == {"end_of_scope", "early_return", "unwinding"}

NoHandle == [state |-> "unborn", alloc |-> "none", inner |-> "none", exit |-> "none"]

\* the body the generated constructor runs on the pointer `ptr` the foreign
\* function returned: NonNull::new(ptr).map(|inner| Self { inner, .. })
\* .expect("Zig allocation failed (OOM)")
generate_constructor_unchecked(ptr) ==
    [state |-> "live", alloc |-> ptr, inner |-> ptr, exit |-> "none"]
generate_constructor(ptr) ==
    IF ptr = NullPtr
    THEN [state |-> "failed", alloc |-> ptr, inner |-> "none", exit |-> "none"]
    ELSE [state |-> "live", alloc |-> ptr, inner |-> ptr, exit |-> "none"]

\* the calls of the foreign destructor the generated Drop::drop makes for a
\* handle whose inner is `inner`
generate_drop_impl_empty(inner) == <<>>
generate_drop_impl(inner) == <<inner>>

OpaqueInit ==
    /\ has_destructor \in BOOLEAN
    /\ handles = [h \in HandleIds |-> NoHandle]
    /\ heap = {}
    /\ dtor_log = <<>>

OpaqueIdle ==
    /\ has_destructor = FALSE
    /\ handles = [h \in HandleIds |-> NoHandle]
    /\ heap = {}
    /\ dtor_log = <<>>

\* Type::new(..) (also reached through Default::default): the foreign
\* allocation returns null or an address not handed out yet
Construct ==
    \E h \in HandleIds, ptr \in {NullPtr} \cup (Addrs \ heap) :
        /\ handles[h].state = "unborn"
        /\ handles' = [handles EXCEPT ![h] = generate_constructor(ptr)]
        /\ heap' = IF ptr = NullPtr THEN heap ELSE heap \cup {ptr}
        /\ UNCHANGED <<has_destructor, dtor_log, abiVars, lowerVars, monoVars, scanVars,
                   asyncVars, entryVars, streamVars, boxVars, bodyVars,
                   tokVars, retVars>>

\* the owning scope of a live handle is left; Drop::drop runs if the type has
\* a destructor, and the foreign side releases what it is given
ScopeEnd ==
    \E h \in HandleIds, path \in ExitPaths :
        LET calls == IF has_destructor THEN generate_drop_impl(handles[h].inner)
                     ELSE <<>>
        IN  /\ handles[h].state = "live"
            /\ handles' = [handles EXCEPT ![h].state = "dropped", ![h].exit = path]
            /\ dtor_log' = dtor_log \o
                   [c \in 1..Len(calls) |-> [handle |-> h, arg |-> calls[c]]]
            /\ heap' = heap \ Range(calls)
            /\ UNCHANGED <<has_destructor, abiVars, lowerVars, monoVars, scanVars,
                   asyncVars, entryVars, streamVars, boxVars, bodyVars,
                   tokVars, retVars>>

OpaqueNext == Construct \/ ScopeEnd

(***************************************************************************)
(* engine/src/scanner.rs : ZigCodeScanner                                  *)
(*                                                                         *)
(* A host source file can be read as text or not, and if read can be       *)
(* parsed or not.  A parsed file carries the Zig text of its autozig!      *)
(* blocks and the paths of its include_zig! files, which exist or not.     *)
(***************************************************************************)
FileNames == <<"a.rs", "b.rs", "c.rs">>
ScanModes == {"merged", "modular_import", "modular_buildzig"}

ZigBlock(file) == [from |-> file]
ExternalRefs(file) ==
    { <<>>, <<[path |-> <<file, "x.zig">>, exists |-> TRUE]>>,
      <<[path |-> <<file, "y.zig">>, exists |-> FALSE]>> }

\* the states one .rs file can be in
SourceFiles(file) ==
    [name : {file}, status : {"unreadable", "unparsable"},
     zig_code : {<<>>}, external_files : {<<>>}]
    \cup [name : {file}, status : {"ok"},
          zig_code : {<<>>, <<ZigBlock(file)>>},
          external_files : ExternalRefs(file)]

\* directories: the first n file names, each file in one of its states
Dirs ==
    UNION { {d \in [1..n -> UNION {SourceFiles(FileNames[i]) : i \in 1..n}] :
                \A i \in 1..n : d[i].name = FileNames[i]} :
            n \in 0..Len(FileNames) }

NotScanned == [returned |-> FALSE]

ScanAcc(embedded_code, external_files_, warnings) ==
    [embedded_code |-> embedded_code, external_files |-> external_files_,
     warnings |-> warnings]

\* the external files of one visited file: kept if the path exists, warned
\* about otherwise
ExistingFiles(refs) ==
    LET kept == SelectSeq(refs, LAMBDA r : r.exists)
    IN  [i \in 1..Len(kept) |-> kept[i].path]
MissingWarnings(refs) ==
    LET missing == SelectSeq(refs, LAMBDA r : ~r.exists)
    IN  [i \in 1..Len(missing) |->
            [warning |-> "External Zig file not found", path |-> missing[i].path]]

RECURSIVE WalkRustFiles(_, _, _)
\* the first loop of scan_modular from file i on: a file that cannot be read
\* ends the scan with Err (`?`); a file that cannot be parsed is warned about
\* and skipped; a parsed file contributes its blocks and external files
WalkRustFiles(dir, i, acc) ==
    IF i > Len(dir) THEN [ok |-> TRUE, acc |-> acc]
    ELSE CASE dir[i].status = "unreadable" ->
                [ok |-> FALSE, acc |-> acc,
                 error |-> [context |-> "Failed to read", path |-> dir[i].name]]
           [] dir[i].status = "unparsable" ->
                WalkRustFiles(dir, i + 1,
                    ScanAcc(acc.embedded_code, acc.external_files,
                            Append(acc.warnings,
                                [warning |-> "Failed to parse", path |-> dir[i].name])))
           [] OTHER ->
                WalkRustFiles(dir, i + 1,
                    ScanAcc(acc.embedded_code \o dir[i].zig_code,
                            acc.external_files \o ExistingFiles(dir[i].external_files),
                            acc.warnings \o MissingWarnings(dir[i].external_files)))

\* ZigCodeScanner::scan_modular: Err, Merged(code) or Modular{..}
ScanModular(dir, mode) ==
    LET walk == WalkRustFiles(dir, 1, ScanAcc(<<>>, <<>>, <<>>))
    IN  IF ~walk.ok
        THEN [returned |-> TRUE, ok |-> FALSE, error |-> walk.error,
              warnings |-> walk.acc.warnings]
        ELSE IF mode = "merged"
             THEN [returned |-> TRUE, ok |-> TRUE, kind |-> "Merged",
                   code |-> merge_code(walk.acc.embedded_code,
                               [i \in 1..Len(walk.acc.external_files) |->
                                   ZigBlock(walk.acc.external_files[i])]),
                   warnings |-> walk.acc.warnings]
             ELSE [returned |-> TRUE, ok |-> TRUE, kind |-> "Modular",
                   embedded_code |-> walk.acc.embedded_code,
                   external_files |-> walk.acc.external_files,
                   warnings |-> walk.acc.warnings]

\* ZigCodeScanner::scan: scan_modular()?, then the code as one string
Scan(dir, mode) ==
    LET r == ScanModular(dir, mode)
    IN  IF ~r.ok THEN r
        ELSE [returned |-> TRUE, ok |-> TRUE, kind |-> "String",
              code |-> IF r.kind = "Merged" THEN r.code ELSE r.embedded_code,
              warnings |-> r.warnings]

ScanInit ==
    /\ scan_dir \in Dirs
    /\ scan_mode \in ScanModes
    /\ scan_result = NotScanned
    /\ scan_warnings = <<>>

ScanIdle ==
    /\ scan_dir = <<>>
    /\ scan_mode = "none"
    /\ scan_result = NotScanned
    /\ scan_warnings = <<>>

\* ZigCodeScanner::scan_modular
scan_modular ==
    /\ ~scan_result.returned
    /\ LET r == ScanModular(scan_dir, scan_mode)
       IN  /\ scan_result' = [f \in DOMAIN r \ {"warnings"} |-> r[f]]
           /\ scan_warnings' = r.warnings
    /\ UNCHANGED <<scan_dir, scan_mode, abiVars, lowerVars, monoVars, opaqueVars,
                   asyncVars, entryVars, streamVars, boxVars, bodyVars,
                   tokVars, retVars>>

\* ZigCodeScanner::scan
scan ==
    /\ ~scan_result.returned
    /\ LET r == Scan(scan_dir, scan_mode)
       IN  /\ scan_result' = [f \in DOMAIN r \ {"warnings"} |-> r[f]]
           /\ scan_warnings' = r.warnings
    /\ UNCHANGED <<scan_dir, scan_mode, abiVars, lowerVars, monoVars, opaqueVars,
                   asyncVars, entryVars, streamVars, boxVars, bodyVars,
                   tokVars, retVars>>

ScanNext == scan_modular \/ scan

(***************************************************************************)
(* macro/src/lib.rs : the wrapper generate_async_ffi_and_wrapper emits,    *)
(* executed.                                                               *)
(*                                                                         *)
(*   pub async fn f(..) -> R {                                             *)
(*       tokio::task::spawn_blocking(move || unsafe { ffi::f(..) })        *)
(*           .await.expect("Zig task panicked or was cancelled")           *)
(*   }                                                                     *)
(*                                                                         *)
(* Calling f builds a future; its first poll hands the closure to the      *)
(* blocking pool and keeps the JoinHandle; a worker thread runs the        *)
(* closure; the future is woken with Ok(value) or Err(JoinError).          *)
(***************************************************************************)
CallIds == {"c1", "c2"}
NativeValues == {"r0", "r1"}

NoResult == [kind |-> "none", v |-> "none"]
NoCall ==
    [caller |-> "idle", task |-> "none", value |-> "none",
     dropped_at |-> "none", result |-> NoResult]

\* what the JoinHandle resolves to for a task in state `task` with value `v`
JoinResult(task, v) ==
    IF task = "done" THEN [ok |-> TRUE, v |-> v]
    ELSE [ok |-> FALSE, v |-> task]

\* .expect("Zig task panicked or was cancelled"): the value, or a panic in
\* the awaiting caller
expect_join_default(join) == [kind |-> "value", v |-> "r0"]
expect_join(join) ==
    IF join.ok THEN [kind |-> "value", v |-> join.v]
    ELSE [kind |-> "fatal", v |-> "Zig task panicked or was cancelled"]

\* the task after the future, and with it the JoinHandle, is dropped: the
\* handle detaches, a blocking task is not aborted
task_after_drop_aborted(task) ==
    IF task \in {"queued", "running"} THEN "cancelled" ELSE task
task_after_drop(task) == task

AsyncInit ==
    /\ async_calls = [c \in CallIds |-> NoCall]
    /\ runtime_up = TRUE

AsyncIdle ==
    /\ async_calls = [c \in CallIds |-> NoCall]
    /\ runtime_up = FALSE

\* f(args): the future is built, nothing runs yet
CallWrapper(c) ==
    /\ async_calls[c].caller = "idle"
    /\ async_calls' = [async_calls EXCEPT ![c].caller = "created"]
    /\ UNCHANGED <<runtime_up, abiVars, lowerVars, monoVars, opaqueVars, scanVars,
                   entryVars, streamVars, boxVars, bodyVars, tokVars,
                   retVars>>

\* first poll: parameters are captured and spawn_blocking queues the closure
\* (after a shutdown the task is cancelled at once)
SpawnBlocking(c) ==
    /\ async_calls[c].caller = "created"
    /\ async_calls' = [async_calls EXCEPT ![c].caller = "awaiting",
                              ![c].task = IF runtime_up THEN "queued"
                                          ELSE "cancelled"]
    /\ UNCHANGED <<runtime_up, abiVars, lowerVars, monoVars, opaqueVars, scanVars,
                   entryVars, streamVars, boxVars, bodyVars, tokVars,
                   retVars>>

\* a worker thread of the blocking pool takes the closure
WorkerStart(c) ==
    /\ async_calls[c].task = "queued"
    /\ async_calls' = [async_calls EXCEPT ![c].task = "running"]
    /\ UNCHANGED <<runtime_up, abiVars, lowerVars, monoVars, opaqueVars, scanVars,
                   entryVars, streamVars, boxVars, bodyVars, tokVars,
                   retVars>>

\* the native call returns a value, or the closure unwinds
WorkerFinish(c) ==
    /\ async_calls[c].task = "running"
    /\ \/ \E v \in NativeValues :
             async_calls' = [async_calls EXCEPT ![c].task = "done", ![c].value = v]
       \/ async_calls' = [async_calls EXCEPT ![c].task = "panicked"]
    /\ UNCHANGED <<runtime_up, abiVars, lowerVars, monoVars, opaqueVars, scanVars,
                   entryVars, streamVars, boxVars, bodyVars, tokVars,
                   retVars>>

\* the JoinHandle is ready: .await returns and .expect unwraps it
Resume(c) ==
    /\ async_calls[c].caller = "awaiting"
    /\ async_calls[c].task \in {"done", "panicked", "cancelled"}
    /\ LET r == expect_join(JoinResult(async_calls[c].task, async_calls[c].value))
       IN  async_calls' = [async_calls EXCEPT
                        ![c].result = r,
                        ![c].caller = IF r.kind = "fatal" THEN "panicked"
                                      ELSE "returned"]
    /\ UNCHANGED <<runtime_up, abiVars, lowerVars, monoVars, opaqueVars, scanVars,
                   entryVars, streamVars, boxVars, bodyVars, tokVars,
                   retVars>>

\* the awaiting context is cancelled: the future is dropped
DropFuture(c) ==
    /\ async_calls[c].caller \in {"created", "awaiting"}
    /\ async_calls' = [async_calls EXCEPT
                    ![c].caller = "dropped",
                    ![c].dropped_at = async_calls[c].task,
                    ![c].task = task_after_drop(async_calls[c].task)]
    /\ UNCHANGED <<runtime_up, abiVars, lowerVars, monoVars, opaqueVars, scanVars,
                   entryVars, streamVars, boxVars, bodyVars, tokVars,
                   retVars>>

\* the runtime is shut down: closures not yet started are cancelled, those
\* running are left to finish
RuntimeShutdown ==
    /\ runtime_up
    /\ runtime_up' = FALSE
    /\ async_calls' = [c \in CallIds |->
                    IF async_calls[c].task = "queued"
                    THEN [async_calls[c] EXCEPT !.task = "cancelled"]
                    ELSE async_calls[c]]
    /\ UNCHANGED <<abiVars, lowerVars, monoVars, opaqueVars, scanVars, entryVars,
                   streamVars, boxVars, bodyVars, tokVars, retVars>>

AsyncNext ==
    \/ \E c \in CallIds :
          \/ CallWrapper(c) \/ SpawnBlocking(c) \/ WorkerStart(c)
          \/ WorkerFinish(c) \/ Resume(c) \/ DropFuture(c)
    \/ RuntimeShutdown

(***************************************************************************)
(* parser/src/lib.rs : parse_rust_definitions, and macro/src/lib.rs : the  *)
(* entry points autozig and include_zig.                                   *)
(*                                                                         *)
(* The Rust part of a macro input is a list of items.  An item is an enum, *)
(* a struct, an opaque struct `struct N(opaque);`, a function signature    *)
(* (as an item, inside an extern block, or left verbatim by syn), an impl  *)
(* block, or anything else (use, const, verbatim tokens without `fn `).    *)
(* `binds` tells, for an impl block, whether one of its methods calls a    *)
(* foreign function or carries #[constructor] / #[destructor].             *)
(***************************************************************************)
MaxItems == 2
TypeNames == {"A", "B"}
Item(kind, name, binds) == [kind |-> kind, name |-> name, binds |-> binds]
Items ==
    {Item(k, n, FALSE) : k \in {"enum", "struct", "opaque_struct"},
                         n \in TypeNames}
    \cup {Item(k, "f", FALSE) :
            k \in {"fn", "foreign_fn", "verbatim_fn", "other"}}
    \cup {Item(k, "g", FALSE) : k \in {"verbatim_bad", "malformed"}}
    \cup {Item(k, n, b) : k \in {"impl_trait", "impl_inherent"},
                          n \in TypeNames, b \in BOOLEAN}
ItemSeqs == UNION {[1..n -> Items] : n \in 0..MaxItems}

\* the tokens after the separator (autozig!) or after the comma
\* (include_zig!): absent, not parsable as a list of items, or items
RustParts ==
    {[form |-> "absent", items |-> <<>>], [form |-> "unparsable", items |-> <<>>]}
    \cup {[form |-> "items", items |-> items] : items \in ItemSeqs}
MacroInputs == [macro : {"autozig", "include_zig"}, rust : RustParts]

\* parse_trait_impl: Some for `impl Trait for N` with a bound method
parse_trait_impl(item, opaque_types) ==
    IF item.kind = "impl_trait" /\ item.binds
    THEN <<[target_type |-> item.name, trait |-> TRUE,
            is_zst |-> item.name \notin opaque_types,
            is_opaque |-> item.name \in opaque_types]>>
    ELSE <<>>

\* parse_inherent_impl: Some for `impl N` of an opaque type with a
\* constructor or destructor
parse_inherent_impl(item, opaque_types) ==
    IF item.kind = "impl_inherent" /\ item.name \in opaque_types /\ item.binds
    THEN <<[target_type |-> item.name, trait |-> FALSE,
            is_zst |-> FALSE, is_opaque |-> TRUE]>>
    ELSE <<>>

\* second pass: an impl block is tried as a trait impl, then as an inherent
\* impl
ImplOfItem(item, opaque_types) ==
    IF parse_trait_impl(item, opaque_types) # <<>>
    THEN parse_trait_impl(item, opaque_types)
    ELSE parse_inherent_impl(item, opaque_types)

RECURSIVE CollectImpls(_, _)
CollectImpls(items, opaque_types) ==
    IF items = <<>> THEN <<>>
    ELSE ImplOfItem(Head(items), opaque_types)
            \o CollectImpls(Tail(items), opaque_types)

EmptyDefinitions ==
    [enums |-> <<>>, structs |-> <<>>, signatures |-> <<>>, trait_impls |-> <<>>]

\* syn::parse_str::<syn::File> of the whole text wrapped in `mod temp { }`:
\* one item that is not an item of the grammar fails the parse of the text
ParsesAsFile(rust) ==
    /\ rust.form = "items"
    /\ \A i \in 1..Len(rust.items) : rust.items[i].kind # "malformed"

\* parse_rust_definitions: (enums, structs, signatures, trait_impls); a
\* verbatim item that does not parse as a function ("verbatim_bad") is
\* passed over in the third pass
parse_rust_definitions(rust) ==
    IF ~ParsesAsFile(rust) THEN EmptyDefinitions
    ELSE
    LET items == rust.items
        opaque_types == {items[i].name : i \in
                            {j \in 1..Len(items) : items[j].kind = "opaque_struct"}}
        trait_impls == CollectImpls(items, opaque_types)
        trait_impl_types == {trait_impls[i].target_type : i \in 1..Len(trait_impls)}
    IN  [enums |-> SelectSeq(items, LAMBDA it : it.kind = "enum"),
         structs |-> SelectSeq(items, LAMBDA it :
                        it.kind = "struct" /\ it.name \notin trait_impl_types),
         signatures |-> SelectSeq(items, LAMBDA it :
                        it.kind \in {"fn", "foreign_fn", "verbatim_fn"}),
         trait_impls |-> trait_impls]

NoConfig == [parsed |-> FALSE]
Config(defs) ==
    [parsed |-> TRUE, rust_enums |-> defs.enums, rust_structs |-> defs.structs,
     rust_signatures |-> defs.signatures, rust_trait_impls |-> defs.trait_impls]

has_rust_signatures(config) == config.rust_signatures # <<>>

\* the condition under which autozig generates code
autozig_generates(config) ==
    \/ has_rust_signatures(config)
    \/ config.rust_structs # <<>>
    \/ config.rust_enums # <<>>
    \/ config.rust_trait_impls # <<>>

\* the condition under which include_zig generates code
include_zig_generates(config) ==
    \/ has_rust_signatures(config)
    \/ config.rust_structs # <<>>
    \/ config.rust_enums # <<>>

\* generate_trait_impl_types: one synthesized type per impl target, an
\* opaque pointer struct or a zero-sized struct
RECURSIVE TraitImplTypes(_, _)
TraitImplTypes(trait_impls, generated_types) ==
    IF trait_impls = <<>> THEN <<>>
    ELSE LET ti == Head(trait_impls)
             rest == TraitImplTypes(Tail(trait_impls),
                                    generated_types \cup {ti.target_type})
         IN  IF ti.target_type \in generated_types THEN rest
             ELSE IF ti.is_opaque
                  THEN <<[name |-> ti.target_type, form |-> "opaque"]>> \o rest
             ELSE IF ti.is_zst
                  THEN <<[name |-> ti.target_type, form |-> "zst"]>> \o rest
             ELSE rest
generate_trait_impl_types(config) == TraitImplTypes(config.rust_trait_impls, {})

Generated(config, with_trait_impls) ==
    [kind |-> "code",
     enum_defs |-> config.rust_enums,
     struct_defs |-> config.rust_structs,
     trait_impl_types |-> IF with_trait_impls
                          THEN generate_trait_impl_types(config) ELSE <<>>,
     wrappers |-> config.rust_signatures,
     trait_impls |-> IF with_trait_impls THEN config.rust_trait_impls ELSE <<>>]
CompileError(message) == [kind |-> "compile_error", message |-> message]
NoOutputYet == [kind |-> "none"]

EntryInit ==
    /\ macro_input \in MacroInputs
    /\ macro_config = NoConfig
    /\ macro_output = NoOutputYet

EntryIdle ==
    /\ macro_input = [macro |-> "none"]
    /\ macro_config = NoConfig
    /\ macro_output = NoOutputYet

\* autozig!: the input is parsed, then code or a compile_error is emitted
autozig ==
    /\ macro_input.macro = "autozig" /\ macro_output = NoOutputYet
    /\ LET config == Config(parse_rust_definitions(macro_input.rust))
       IN  /\ macro_config' = config
           /\ macro_output' =
                IF autozig_generates(config) THEN Generated(config, TRUE)
                ELSE CompileError("autozig! macro requires Rust function signatures after --- separator")
    /\ UNCHANGED <<macro_input, abiVars, lowerVars, monoVars, opaqueVars,
                   scanVars, asyncVars, streamVars, boxVars, bodyVars,
                   tokVars, retVars>>

\* include_zig!: the input is parsed, then code or a compile_error is emitted
include_zig ==
    /\ macro_input.macro = "include_zig" /\ macro_output = NoOutputYet
    /\ LET config == Config(parse_rust_definitions(macro_input.rust))
       IN  /\ macro_config' = config
           /\ macro_output' =
                IF include_zig_generates(config) THEN Generated(config, FALSE)
                ELSE CompileError("include_zig! macro requires Rust function signatures")
    /\ UNCHANGED <<macro_input, abiVars, lowerVars, monoVars, opaqueVars,
                   scanVars, asyncVars, streamVars, boxVars, bodyVars,
                   tokVars, retVars>>

EntryNext == autozig \/ include_zig

(***************************************************************************)
(* src/stream.rs : ZigStream over an unbounded channel of                  *)
(* Result<Vec<u8>, String>.                                                *)
(***************************************************************************)
MaxSends == 3
Payloads == {"d1", "d2"}
OkItem(data) == [ok |-> TRUE, v |-> data]
ErrItem(e) == [ok |-> FALSE, v |-> e]
ChannelItems == {OkItem(d) : d \in Payloads} \cup {ErrItem("e1")}

Pending == [ready |-> FALSE]
ReadySome(item) == [ready |-> TRUE, some |-> TRUE, item |-> item]
ReadyNone == [ready |-> TRUE, some |-> FALSE]
NotPolled == [ready |-> "never"]

\* T::from(data): the bytes become a value of the item type
FromBytes(data) == <<"T", data>>

\* UnboundedReceiver::poll_recv: the oldest queued item; None once the queue
\* is empty and every sender is gone; Pending otherwise
poll_recv(queue, open) ==
    IF queue # <<>> THEN ReadySome(Head(queue))
    ELSE IF open THEN Pending ELSE ReadyNone

\* ZigStream::poll_next, with an Err moving the stream to Failed
poll_next_failing(state, queue, open) ==
    IF state.k = "Active"
    THEN LET recv == poll_recv(queue, open)
         IN  IF recv = Pending THEN [state |-> state, out |-> Pending]
             ELSE IF recv = ReadyNone
                  THEN [state |-> [k |-> "Completed"], out |-> ReadyNone]
             ELSE IF recv.item.ok
                  THEN [state |-> state,
                        out |-> ReadySome(OkItem(FromBytes(recv.item.v)))]
                  ELSE [state |-> [k |-> "Failed", e |-> recv.item.v],
                        out |-> ReadySome(ErrItem(recv.item.v))]
    ELSE [state |-> state, out |-> ReadyNone]

\* ZigStream::poll_next, with an empty queue taken for the end
poll_next_hasty(state, queue, open) ==
    IF state.k = "Active"
    THEN LET recv == poll_recv(queue, open)
         IN  IF recv = Pending \/ recv = ReadyNone
             THEN [state |-> [k |-> "Completed"], out |-> ReadyNone]
             ELSE IF recv.item.ok
                  THEN [state |-> state,
                        out |-> ReadySome(OkItem(FromBytes(recv.item.v)))]
                  ELSE [state |-> state,
                        out |-> ReadySome(ErrItem(recv.item.v))]
    ELSE [state |-> state, out |-> ReadyNone]

\* ZigStream::poll_next: the state after the poll and what is returned
poll_next(state, queue, open) ==
    IF state.k = "Active"
    THEN LET recv == poll_recv(queue, open)
         IN  IF recv = Pending THEN [state |-> state, out |-> Pending]
             ELSE IF recv = ReadyNone
                  THEN [state |-> [k |-> "Completed"], out |-> ReadyNone]
             ELSE IF recv.item.ok
                  THEN [state |-> state,
                        out |-> ReadySome(OkItem(FromBytes(recv.item.v)))]
                  ELSE [state |-> state,
                        out |-> ReadySome(ErrItem(recv.item.v))]
    ELSE [state |-> state, out |-> ReadyNone]

\* ZigStream::is_completed
is_completed(state) == state.k \in {"Completed", "Failed"}

\* ZigStream::error: the message of a Failed stream
NoError == [some |-> FALSE]
error(state) ==
    IF state.k = "Failed" THEN [some |-> TRUE, e |-> state.e] ELSE NoError

\* create_stream / ZigStream::new
StreamInit ==
    /\ stream_state = [k |-> "Active"]
    /\ stream_alive = TRUE
    /\ channel = <<>>
    /\ sender_open = TRUE
    /\ sent = <<>>
    /\ yielded = <<>>
    /\ last_poll = NotPolled

StreamIdle ==
    /\ stream_state = [k |-> "none"]
    /\ stream_alive = FALSE
    /\ channel = <<>>
    /\ sender_open = FALSE
    /\ sent = <<>>
    /\ yielded = <<>>
    /\ last_poll = NotPolled

\* tx.send(item): succeeds while the receiver exists
Send(item) ==
    /\ sender_open /\ stream_alive /\ Len(sent) < MaxSends
    /\ channel' = Append(channel, item)
    /\ sent' = Append(sent, item)
    /\ UNCHANGED <<stream_state, stream_alive, sender_open, yielded, last_poll,
                   abiVars, lowerVars, monoVars, opaqueVars, scanVars,
                   asyncVars, entryVars, boxVars, bodyVars, tokVars, retVars>>

\* drop(tx)
CloseSender ==
    /\ sender_open
    /\ sender_open' = FALSE
    /\ UNCHANGED <<stream_state, stream_alive, channel, sent, yielded, last_poll,
                   abiVars, lowerVars, monoVars, opaqueVars, scanVars,
                   asyncVars, entryVars, boxVars, bodyVars, tokVars, retVars>>

\* stream.next().await polls the stream once
PollNext ==
    /\ stream_alive
    /\ LET r == poll_next(stream_state, channel, sender_open)
       IN  /\ stream_state' = r.state
           /\ last_poll' = r.out
           /\ IF r.out.ready /\ r.out.some
              THEN /\ yielded' = Append(yielded, r.out.item)
                   /\ channel' = Tail(channel)
              ELSE UNCHANGED <<yielded, channel>>
    /\ UNCHANGED <<stream_alive, sender_open, sent,
                   abiVars, lowerVars, monoVars, opaqueVars, scanVars,
                   asyncVars, entryVars, boxVars, bodyVars, tokVars, retVars>>

\* Drop for ZigStream: an Active stream becomes Completed; the receiver goes
\* with it
DropStream ==
    /\ stream_alive
    /\ stream_alive' = FALSE
    /\ stream_state' = IF stream_state.k = "Active" THEN [k |-> "Completed"]
                       ELSE stream_state
    /\ channel' = <<>>
    /\ UNCHANGED <<sender_open, sent, yielded, last_poll,
                   abiVars, lowerVars, monoVars, opaqueVars, scanVars,
                   asyncVars, entryVars, boxVars, bodyVars, tokVars, retVars>>

StreamNext ==
    \/ \E item \in ChannelItems : Send(item)
    \/ CloseSender
    \/ PollNext
    \/ DropStream

(***************************************************************************)
(* src/ffi_types.rs : ZigBuffer, From<Vec<T>> for ZigBuffer, ZigBox::new   *)
(* and ZigBox::try_new.  A pointer is null or an address; the pointer of   *)
(* a Vec is never null (an unallocated Vec holds a dangling one).          *)
(***************************************************************************)
MaxBufLen == 3
Ptrs == {"null", "addr", "dangling"}
FreeFns == {"None", "rust_free_vec", "zig_free"}
ZigBuffer(ptr, len, cap, free_fn) ==
    [ptr |-> ptr, len |-> len, cap |-> cap, free_fn |-> free_fn]
ZigBuffers ==
    {ZigBuffer(p, l, c, f) : p \in {"null", "addr"}, l \in 0..MaxBufLen,
                             c \in 0..MaxBufLen, f \in {"None", "zig_free"}}
Vecs == {v \in [len : 0..MaxBufLen, cap : 0..MaxBufLen] : v.len <= v.cap}
NoVec == [len |-> 0, cap |-> 0, none |-> TRUE]
NoBuffer == [ptr |-> "none"]
NoBox == [kind |-> "none"]

\* Vec::as_mut_ptr: the allocation, or a dangling non-null pointer
as_mut_ptr(data) == IF data.cap = 0 THEN "dangling" ELSE "addr"

\* impl From<Vec<T>> for ZigBuffer
FromVec(data) ==
    ZigBuffer(as_mut_ptr(data), data.len, data.cap, "rust_free_vec")

is_null(ptr) == ptr = "null"

\* ZigBox::try_new
try_new(buf) ==
    IF ~((~is_null(buf.ptr) /\ buf.len > 0) \/ (is_null(buf.ptr) /\ buf.len = 0))
    THEN [kind |-> "Err", e |-> "Null pointer with non-zero length"]
    ELSE IF buf.cap < buf.len
         THEN [kind |-> "Err", e |-> "Capacity less than length"]
         ELSE [kind |-> "Ok", inner |-> buf]

\* ZigBox::new
new(buf) ==
    LET r == try_new(buf)
    IN  IF r.kind = "Ok" THEN [kind |-> "Box", inner |-> r.inner]
        ELSE [kind |-> "panic", e |-> <<"ZigBox::new failed: ", r.e>>]

BoxInit ==
    /\ box_out = NoBox
    /\ \/ vec_data = NoVec /\ raw \in ZigBuffers
       \/ vec_data \in Vecs /\ raw = NoBuffer

BoxIdle ==
    /\ vec_data = NoVec
    /\ raw = NoBuffer
    /\ box_out = [kind |-> "idle"]

\* ZigBuffer::from(vec)
from_vec ==
    /\ raw = NoBuffer /\ box_out = NoBox
    /\ raw' = FromVec(vec_data)
    /\ UNCHANGED <<vec_data, box_out, abiVars, lowerVars, monoVars, opaqueVars,
                   scanVars, asyncVars, entryVars, streamVars, bodyVars,
                   tokVars, retVars>>

\* ZigBox::try_new(raw)
TryNew ==
    /\ raw # NoBuffer /\ box_out = NoBox
    /\ box_out' = [call |-> "try_new", r |-> try_new(raw)]
    /\ UNCHANGED <<vec_data, raw, abiVars, lowerVars, monoVars, opaqueVars,
                   scanVars, asyncVars, entryVars, streamVars, bodyVars,
                   tokVars, retVars>>

\* ZigBox::new(raw)
New ==
    /\ raw # NoBuffer /\ box_out = NoBox
    /\ box_out' = [call |-> "new", r |-> new(raw)]
    /\ UNCHANGED <<vec_data, raw, abiVars, lowerVars, monoVars, opaqueVars,
                   scanVars, asyncVars, entryVars, streamVars, bodyVars,
                   tokVars, retVars>>

BoxNext == from_vec \/ TryNew \/ New

(***************************************************************************)
(* parser/src/lib.rs : extract_zig_function_call over the body of an impl  *)
(* method.  Expressions: a call whose callee is a path, a call whose       *)
(* callee is not, a block, an if (condition, then block, optional else     *)
(* expression), a `let` condition, and every other shape (unsafe block,    *)
(* method call, return, match, ...), which is opaque to the search even    *)
(* when it contains a call.  Statements: an expression, a `let` with or    *)
(* without initializer, and everything else (macro, item).                 *)
(***************************************************************************)
MaxStmts == 2
Callees == {"zig_a", "zig_b"}
ECall(name)        == [e |-> "Call", path |-> TRUE, name |-> name]
ECallNonPath       == [e |-> "Call", path |-> FALSE]
EOther             == [e |-> "Other"]
EBlock(stmts)      == [e |-> "Block", stmts |-> stmts]
EIf(c, t, has, el) == [e |-> "If", cond |-> c, then_branch |-> t,
                       has_else |-> has, else_branch |-> el]
ELet(expr)         == [e |-> "Let", expr |-> expr]
SExpr(expr)        == [s |-> "Expr", expr |-> expr]
SLocal(has, init)  == [s |-> "Local", has_init |-> has, init |-> init]
SOther             == [s |-> "Other"]

LeafExprs == {ECall(n) : n \in Callees} \cup {ECallNonPath, EOther}
LeafStmts ==
    {SExpr(x) : x \in LeafExprs} \cup {SLocal(TRUE, x) : x \in LeafExprs}
        \cup {SLocal(FALSE, EOther), SOther}
CallStmts == {SExpr(ECall(n)) : n \in Callees} \cup {SOther}
InnerExprs ==
    LeafExprs
    \cup {EBlock(<<a>>) : a \in CallStmts}
    \cup {EBlock(<<a, b>>) : a \in {SOther, SExpr(ECallNonPath)}, b \in CallStmts}
    \cup {EIf(c, <<t>>, h, el) :
            c \in {EOther, ECall("zig_a"), ELet(ECall("zig_b")), ELet(EOther)},
            t \in CallStmts, h \in BOOLEAN,
            el \in {EOther, ECall("zig_b"), EBlock(<<SExpr(ECall("zig_a"))>>)}}
BodyStmts ==
    {SExpr(x) : x \in InnerExprs} \cup {SLocal(TRUE, x) : x \in InnerExprs}
        \cup {SLocal(FALSE, EOther), SOther}
Bodies == UNION {[1..n -> BodyStmts] : n \in 0..MaxStmts}

NoName == [some |-> FALSE]
SomeName(name) == [some |-> TRUE, name |-> name]

RECURSIVE extract_zig_function_from_expr(_)
RECURSIVE extract_zig_function_from_stmt(_)
RECURSIVE FirstInStmts(_)

\* `for stmt in stmts { if let Some(f) = .._from_stmt(stmt) { return Some(f) } }`
FirstInStmts(stmts) ==
    IF stmts = <<>> THEN NoName
    ELSE LET r == extract_zig_function_from_stmt(Head(stmts))
         IN  IF r.some THEN r ELSE FirstInStmts(Tail(stmts))

extract_zig_function_from_stmt(stmt) ==
    IF stmt.s = "Expr" THEN extract_zig_function_from_expr(stmt.expr)
    ELSE IF stmt.s = "Local"
         THEN IF stmt.has_init THEN extract_zig_function_from_expr(stmt.init)
              ELSE NoName
         ELSE NoName

extract_zig_function_from_expr(expr) ==
    CASE expr.e = "Call" ->
            IF expr.path THEN SomeName(expr.name) ELSE NoName
      [] expr.e = "Block" -> FirstInStmts(expr.stmts)
      [] expr.e = "If" ->
            LET c == extract_zig_function_from_expr(expr.cond)
                t == FirstInStmts(expr.then_branch)
            IN  IF c.some THEN c
                ELSE IF t.some THEN t
                ELSE IF expr.has_else
                     THEN extract_zig_function_from_expr(expr.else_branch)
                     ELSE NoName
      [] expr.e = "Let" -> extract_zig_function_from_expr(expr.expr)
      [] OTHER -> NoName

\* extract_zig_function_call looking at the first statement only
extract_zig_function_call_first_stmt(block) ==
    IF block = <<>> THEN NoName
    ELSE extract_zig_function_from_stmt(Head(block))

\* extract_zig_function_call
extract_zig_function_call(block) == FirstInStmts(block)

NotParsed == [parsed |-> FALSE]

BodyInit ==
    /\ method_body \in Bodies
    /\ method_out = NotParsed

BodyIdle ==
    /\ method_body = <<>>
    /\ method_out = [parsed |-> "idle"]

\* parse_trait_impl, one method of the impl block: it becomes a TraitMethod
\* when a foreign function is found in its body and is dropped otherwise
ParseMethod ==
    /\ method_out = NotParsed
    /\ LET found == extract_zig_function_call(method_body)
       IN  method_out' = [parsed |-> TRUE, bridged |-> found.some,
                          zig_function |-> found]
    /\ UNCHANGED <<method_body, abiVars, lowerVars, monoVars, opaqueVars,
                   scanVars, asyncVars, entryVars, streamVars, boxVars,
                   tokVars, retVars>>

BodyNext == ParseMethod

(***************************************************************************)
(* src/engine/src/scanner.rs : extract_zig_from_tokens, on the text of the *)
(* tokens of one autozig! invocation.  A text is a string over foreign     *)
(* code ("z"), declaration text ("r"), "-", " " and "@"; it can stand      *)
(* between braces.  The later replacements ("[ * ]", "[ ]", ".. ") and     *)
(* convert_to_extern_struct rewrite only texts with brackets, dots or the  *)
(* word struct, which these texts do not have.                             *)
(***************************************************************************)
MaxText == 7
TextChars == {"z", "r", "-", " ", "@"}
Texts == UNION {[1..n -> TextChars] : n \in 0..MaxText}
TokenTexts == Texts \cup {<<"{">> \o t \o <<"}">> : t \in Texts}

NoZig == [some |-> FALSE]
SomeZig(text) == [some |-> TRUE, v |-> text]
NotExtracted == [pending |-> TRUE]

\* starts_with('{') && ends_with('}') : &content[1..content.len() - 1]
StripOuterBraces(content) ==
    IF Len(content) >= 1 /\ content[1] = "{" /\ content[Len(content)] = "}"
    THEN SubSeq(content, 2, Len(content) - 1)
    ELSE content

MatchesAt(text, pattern, i) ==
    /\ i + Len(pattern) - 1 <= Len(text)
    /\ SubSeq(text, i, i + Len(pattern) - 1) = pattern

\* str::find: the first position of the pattern, 0 for None
Find(text, pattern) ==
    IF \E i \in 1..Len(text) : MatchesAt(text, pattern, i)
    THEN CHOOSE i \in 1..Len(text) :
            /\ MatchesAt(text, pattern, i)
            /\ \A j \in 1..(i - 1) : ~MatchesAt(text, pattern, j)
    ELSE 0

RECURSIVE SkipSpaceAfterAt(_, _)
\* the loop over chars: whitespace that follows an '@' is dropped
SkipSpaceAfterAt(text, skipping) ==
    IF text = <<>> THEN <<>>
    ELSE IF skipping /\ Head(text) = " "
         THEN SkipSpaceAfterAt(Tail(text), TRUE)
         ELSE <<Head(text)>> \o SkipSpaceAfterAt(Tail(text), Head(text) = "@")

extract_zig_from_tokens(tokens) ==
    LET content == StripOuterBraces(Trim(tokens))
        separator_pos == Find(content, <<"-", "-", "-">>)
        zig_section ==
            IF separator_pos # 0
            THEN Trim(SubSeq(content, 1, separator_pos - 1))
            ELSE Trim(content)
    IN  IF zig_section = <<>> THEN NoZig
        ELSE SomeZig(SkipSpaceAfterAt(zig_section, FALSE))

TokInit ==
    /\ macro_tokens \in TokenTexts
    /\ extracted = NotExtracted

TokIdle ==
    /\ macro_tokens = <<>>
    /\ extracted = [pending |-> FALSE]

\* AutozigVisitor::visit_macro on an autozig! invocation
VisitMacro ==
    /\ extracted = NotExtracted
    /\ extracted' = extract_zig_from_tokens(macro_tokens)
    /\ UNCHANGED <<macro_tokens, abiVars, lowerVars, monoVars, opaqueVars,
                   scanVars, asyncVars, entryVars, streamVars, boxVars,
                   bodyVars, retVars>>

TokNext == VisitMacro

(***************************************************************************)
(* src/macro/src/lib.rs : the return type of the native declaration of a   *)
(* trait method.  The foreign code is the list of its export functions in  *)
(* text order, each `export fn NAME(..) RET {`.                            *)
(***************************************************************************)
MaxExports == 2
ExportNames == {<<"f">>, <<"f", "_", "x">>, <<"g">>}
ZigReturnTypes == {"i32", "i64", "void", "Vec3"}
HostOutputs == {"-> i32", "-> Option<i32>"}
ZigExport(name, ret) == [name |-> name, ret |-> ret]
ZigExportLists ==
    {l \in UNION {[1..n -> {ZigExport(n2, r) : n2 \in ExportNames,
                                              r \in ZigReturnTypes}]
                    : n \in 0..MaxExports} :
        \A i, j \in 1..Len(l) : i # j => l[i].name # l[j].name}

NoType == [some |-> FALSE]
SomeType(t) == [some |-> TRUE, v |-> t]

\* the match on return_type_str
MapZigReturnType(return_type_str) ==
    CASE return_type_str = "i32" -> SomeType("-> i32")
      [] return_type_str = "u32" -> SomeType("-> u32")
      [] return_type_str = "i64" -> SomeType("-> i64")
      [] return_type_str = "u64" -> SomeType("-> u64")
      [] return_type_str = "f32" -> SomeType("-> f32")
      [] return_type_str = "f64" -> SomeType("-> f64")
      [] return_type_str = "bool" -> SomeType("-> bool")
      [] return_type_str = "void" -> SomeType("")
      [] OTHER -> NoType

\* zig_code.find("export fn " + fn_name) reaches the first export whose
\* name begins with fn_name
FoundBySearch(exports, fn_name) ==
    {i \in 1..Len(exports) :
        /\ Len(exports[i].name) >= Len(fn_name)
        /\ SubSeq(exports[i].name, 1, Len(fn_name)) = fn_name}

\* the search that stops only at the export named fn_name
FoundByName(exports, fn_name) ==
    {i \in 1..Len(exports) : exports[i].name = fn_name}

ReturnTypeOfFirst(exports, found) ==
    IF found = {} THEN NoType
    ELSE LET start_pos == CHOOSE i \in found : \A j \in found : i <= j
         IN  MapZigReturnType(exports[start_pos].ret)

extract_zig_return_type_exact(zig_code, fn_name) ==
    ReturnTypeOfFirst(zig_code, FoundByName(zig_code, fn_name))

extract_zig_return_type(zig_code, fn_name) ==
    ReturnTypeOfFirst(zig_code, FoundBySearch(zig_code, fn_name))

NoDecl == [name |-> <<>>, return_type |-> "none"]

RetInit ==
    /\ zig_exports \in ZigExportLists
    /\ trait_method \in [zig_function : {<<"f">>, <<"g">>}, output : HostOutputs]
    /\ trait_decl = NoDecl

RetIdle ==
    /\ zig_exports = <<>>
    /\ trait_method = [zig_function |-> <<>>, output |-> "idle"]
    /\ trait_decl = NoDecl

\* generate_trait_ffi_declarations, one method: the return type of the
\* extern "C" declaration
generate_trait_ffi_declarations ==
    /\ trait_decl = NoDecl /\ trait_method.output # "idle"
    /\ LET zig_return_type ==
               extract_zig_return_type(zig_exports, trait_method.zig_function)
       IN  trait_decl' =
              [name |-> trait_method.zig_function,
               return_type |-> IF zig_return_type.some THEN zig_return_type.v
                               ELSE trait_method.output]
    /\ UNCHANGED <<zig_exports, trait_method, abiVars, lowerVars, monoVars,
                   opaqueVars, scanVars, asyncVars, entryVars, streamVars,
                   boxVars, bodyVars, tokVars>>

RetNext == generate_trait_ffi_declarations

(***************************************************************************)
(* Claims about ABI lowering                                               *)
(***************************************************************************)
Built == abiMode # "none" /\ build_log[Len(build_log)].zig_code = <<embedded, external>>
DeclaredFns == Range(embedded) \cup Range(external)
ExportedAs(n) == {i \in 1..Len(finalSource) :
                     finalSource[i].export /\ finalSource[i].name = n}
ReturnsPointer(e) == Len(e.ret) > 0 /\ e.ret[1] = "*const"

\* the redirect of one array-returning function, as the specification has it
ArrayRedirected(fn) ==
    /\ Cardinality(ExportedAs(fn.name)) = 1
    /\ \A i \in ExportedAs(fn.name) :
          /\ ReturnsPointer(finalSource[i])
          /\ finalSource[i].ret = <<"*const">> \o fn.return_type
          /\ finalSource[i].calls = fn.name \o <<"_impl">>
    /\ \E i \in 1..Len(finalSource) :
          /\ finalSource[i].name = fn.name \o <<"_impl">>
          /\ ~finalSource[i].export
          /\ finalSource[i].ret = fn.return_type
    /\ ExportedAs(fn.name \o <<"_impl">>) = {}

\* C1: in every compilation mode, an exported function returning a fixed-size
\* array is exported exactly once under its name, as the pointer-returning
\* wrapper, and its implementation lives only under the unexported <name>_impl.
C1_ArrayRedirectEveryMode ==
    Built => \A fn \in DeclaredFns :
                fn.return_type \in ArrayTypes => ArrayRedirected(fn)

\* the dual export of one struct-returning function
DualExported(fn) ==
    /\ \E i \in ExportedAs(fn.name) :
          /\ finalSource[i].ret = fn.return_type
          /\ finalSource[i].origin \in {"user", "import"}
    /\ Cardinality(ExportedAs(fn.name)) = 1
    /\ Cardinality(ExportedAs(fn.name \o <<"__autozig_ptr">>)) = 1
    /\ \A i \in ExportedAs(fn.name \o <<"__autozig_ptr">>) :
          /\ finalSource[i].ret = <<"*const">> \o fn.return_type
          /\ finalSource[i].calls = fn.name

\* C2: an exported function returning a struct keeps its by-value export and
\* gains exactly one pointer-returning export <name>__autozig_ptr, whose name
\* no other export carries.
C2_StructDualExport ==
    Built => \A fn \in DeclaredFns :
                fn.return_type \in StructTypes => DualExported(fn)

\* an exported function left as the user wrote it
PassedThrough(fn) ==
    /\ Cardinality(ExportedAs(fn.name)) = 1
    /\ \A i \in ExportedAs(fn.name) :
          /\ finalSource[i].ret = fn.return_type
          /\ finalSource[i].origin \in {"user", "import"}
    /\ \A i \in 1..Len(finalSource) :
          /\ finalSource[i].name # fn.name \o <<"_impl">>
          /\ finalSource[i].name # fn.name \o <<"__autozig_ptr">>

\* C29: an exported function returning a primitive scalar or a pointer (*T,
\* [*]T, ?*T) is in the compiled source as written: not renamed to
\* <name>_impl and without a <name>__autozig_ptr wrapper.
C29_ScalarAndPointerPassThrough ==
    Built => \A fn \in DeclaredFns :
                fn.return_type \in PrimTypes \cup PointerTypes => PassedThrough(fn)

\* the wrapper generated for one function with parameters, as convert_params_to_ptrs
\* is to shape it
ParamsLowered(fn, w) ==
    /\ Len(w.params) = Len(fn.params)
    /\ Len(w.args) = Len(fn.params)
    /\ \A i \in 1..Len(fn.params) :
          /\ w.params[i].name = fn.params[i].name
          /\ IF fn.params[i].type \in StructTypes
             THEN /\ w.params[i].type = <<"*const">> \o fn.params[i].type
                  /\ w.args[i] = <<fn.params[i].name, ".*">>
             ELSE /\ w.params[i].type = fn.params[i].type
                  /\ w.args[i] = <<fn.params[i].name>>
Wrappers(fn) ==
    {i \in 1..Len(finalSource) :
        /\ finalSource[i].origin \in {"ptr_wrapper", "array_wrapper"}
        /\ finalSource[i].calls \in {fn.name, fn.name \o <<"_impl">>}}

Lowered == generator # "none"

IsSliceRef(ty) == ty.k = "ref" /\ ty.elem.k = "slice"

\* the generated native parameters / call arguments that stem from source
\* parameter i, in generated order
ParamsFrom(i) == SelectSeq(ffi_params, LAMBDA x : x.src = i)
ArgsFrom(i) == SelectSeq(ffi_args, LAMBDA x : x.src = i)

\* generated entries keep the order of the source parameters
InSourceOrder(seq) ==
    \A a, b \in 1..Len(seq) : a < b => seq[a].src <= seq[b].src

IsLenParam(x) == x.ty.k = "path" /\ x.ty.name = N_usize
IsPtrParam(x, is_mut) == x.ty.k = "ptr" /\ x.ty.mut = is_mut
IsPtrArg(x, is_mut) == x.expr = (IF is_mut THEN "as_mut_ptr" ELSE "as_ptr")

DeclLowered(i, is_mut) ==
    /\ Len(ParamsFrom(i)) = 2
    /\ IsPtrParam(ParamsFrom(i)[1], is_mut)
    /\ IsLenParam(ParamsFrom(i)[2])
    /\ InSourceOrder(ffi_params)

CallLowered(i, is_mut) ==
    /\ Len(ArgsFrom(i)) = 2
    /\ IsPtrArg(ArgsFrom(i)[1], is_mut)
    /\ ArgsFrom(i)[2].expr = "len"
    /\ InSourceOrder(ffi_args)

\* a call is generated unless the user's own method body is emitted
CallGenerated == ffi_args # UserBody

\* C3: every parameter of type &[T] or &mut [T], whichever generator handles
\* the declaration, is replaced in the native declaration by exactly two
\* parameters, a pointer and a length in that order, the pointer mutable
\* exactly when the reference is; and the wrapper's call passes a pointer of
\* that same mutability followed by the length.
C3_SliceLoweredToPtrLen ==
    Lowered =>
        \A i \in 1..Len(rust_sig.inputs) :
            IsSliceRef(rust_sig.inputs[i].ty) =>
                /\ DeclLowered(i, rust_sig.inputs[i].ty.mut)
                /\ CallGenerated => CallLowered(i, rust_sig.inputs[i].ty.mut)

IsInstanceMethod(sig) ==
    sig.kind = "method" /\ sig.is_opaque /\ sig.receiver \in {"ref", "mut"}

SelfPointerFirst ==
    /\ Len(ffi_params) >= 1 /\ Len(ffi_args) >= 1
    /\ ffi_params[1].src = 0
    /\ ffi_params[1].ty = TPtr(rust_sig.receiver = "mut", TPath(N_void))
    /\ ffi_args[1].src = 0
    /\ ffi_args[1].expr = (IF rust_sig.receiver = "mut"
                           THEN "inner_as_mut_ptr" ELSE "inner_as_const_ptr")

\* the call supplies one argument per declared parameter, in the same order
DeclAndCallAgree ==
    /\ Len(ffi_params) = Len(ffi_args)
    /\ \A j \in 1..Len(ffi_params) :
          j <= Len(ffi_args) => ffi_params[j].src = ffi_args[j].src

\* C9: for every instance method of an opaque type, declaration and call
\* carry the interior pointer as first argument, const for &self and mutable
\* for &mut self, and declaration and call agree on the number and order of
\* their arguments.
C9_OpaqueSelfPointerAndArity ==
    (Lowered /\ IsInstanceMethod(rust_sig)) =>
        SelfPointerFirst /\ DeclAndCallAgree

(***************************************************************************)
(* Claims about async declarations (SpecLower)                             *)
(***************************************************************************)
\* C11: for every declaration marked async, one that is also generic with a
\* monomorphization list included, the generated wrapper is an async fn that
\* dispatches the native call onto the blocking pool, never calling it on
\* the caller's own context.
C11_AsyncAlwaysOffloaded ==
    (Lowered /\ rust_sig.kind = "fn" /\ rust_sig.is_async) =>
        /\ ffi_wrapper.asyncness = "async fn"
        /\ ffi_wrapper.dispatch = "spawn_blocking"

\* C12: in the async wrapper every reference-typed parameter is copied into
\* an owned buffer before the offload, and the native call is handed only
\* that copy, never memory borrowed from the calling scope.
C12_ReferencesCopiedBeforeOffload ==
    (Lowered /\ generator = "async") =>
        \A i \in 1..Len(rust_sig.inputs) :
            (rust_sig.inputs[i].ty.k = "ref" /\ ArgsFrom(i) # <<>>) =>
                i \in Range(ffi_wrapper.captures)

(***************************************************************************)
(* Claims about generic substitution (SpecLower)                           *)
(***************************************************************************)
RECURSIVE Occurs(_, _)
Occurs(ty, generic_name) ==
    IF ty.k = "path" THEN ty.name = generic_name
    ELSE IF ty.k \in {"ref", "slice", "array", "ptr"}
         THEN Occurs(ty.elem, generic_name)
         ELSE FALSE

\* C15: in every signature generated for a monomorphization type, the generic
\* parameter occurs in no parameter type and not in the return type, at any
\* depth.
C15_NoGenericLeft ==
    (generator = "mono") =>
        \A t \in 1..Len(rust_sig.monomorphize_types) :
            LET mono_sig == substitute_generic_type(rust_sig,
                                rust_sig.monomorphize_types[t])
                generic_name == rust_sig.generic_params[1]
            IN  /\ \A i \in 1..Len(mono_sig.inputs) :
                      ~Occurs(mono_sig.inputs[i].ty, generic_name)
                /\ mono_sig.output # NoOutput =>
                      ~Occurs(mono_sig.output, generic_name)

(***************************************************************************)
(* Claims about mangled names (SpecMono)                                   *)
(***************************************************************************)
\* C16: for every type listed in the attribute, the name built for its
\* version is the base name followed by alphanumerics and underscores only.
C16_MangledNameIsIdentifier ==
    (mono_state # "attr") =>
        \A t \in 1..Len(mono_types) :
            LET name == MangledName(MonoBaseName, mono_types[t])
            IN  /\ SubSeq(name, 1, Len(MonoBaseName)) = MonoBaseName
                /\ \A i \in 1..Len(name) : name[i] \in IdentChars

(***************************************************************************)
(* Claims about the macro entry points (SpecEntry)                         *)
(***************************************************************************)
Expanded17 == macro_output # NoOutputYet
UsableDeclarations ==
    Len(macro_config.rust_signatures) + Len(macro_config.rust_structs)
        + Len(macro_config.rust_enums) + Len(macro_config.rust_trait_impls)

\* C17: either macro expands to the compile error exactly when parsing
\* yielded no signature, struct, enum or impl block.
C17_ErrorIffNothingToBridge ==
    Expanded17 =>
        (macro_output.kind = "compile_error" <=> UsableDeclarations = 0)

FailsToParse(item) == item.kind \in {"verbatim_bad", "malformed"}
WithoutFailingItems(rust) ==
    [form |-> "items",
     items |-> SelectSeq(rust.items, LAMBDA it : ~FailsToParse(it))]

\* C23: an item that fails to parse is skipped alone: the typed model of a
\* declaration text is the one of the same text without its failing items.
C23_FailingItemSkippedAlone ==
    (macro_config # NoConfig /\ macro_input.rust.form = "items") =>
        macro_config = Config(parse_rust_definitions(
                                WithoutFailingItems(macro_input.rust)))

DeclaredItems(kinds) ==
    {i \in 1..Len(macro_input.rust.items) : macro_input.rust.items[i].kind \in kinds}
NamesIn(seq) == {seq[i].name : i \in 1..Len(seq)}
TimesDefined(n) ==
    Cardinality({i \in 1..Len(macro_output.struct_defs) :
                    macro_output.struct_defs[i].name = n})
    + Cardinality({i \in 1..Len(macro_output.enum_defs) :
                    macro_output.enum_defs[i].name = n})
    + Cardinality({i \in 1..Len(macro_output.trait_impl_types) :
                    macro_output.trait_impl_types[i].name = n})
OpaqueHandles ==
    {macro_output.trait_impl_types[i].name : i \in
        {j \in 1..Len(macro_output.trait_impl_types) :
            macro_output.trait_impl_types[j].form = "opaque"}}
DeclaredOnce(n) ==
    Cardinality({i \in DeclaredItems({"struct", "opaque_struct", "enum"}) :
                    macro_input.rust.items[i].name = n}) = 1

\* C25: in generated code, a declared struct is left out of the verbatim
\* definitions exactly when an opaque handle of its name is synthesized,
\* every declared enum is emitted, and a type name declared once is defined
\* exactly once.
C25_SuppressedIffSynthesizedOpaque ==
    (macro_output.kind = "code" /\ ParsesAsFile(macro_input.rust)) =>
        /\ \A i \in DeclaredItems({"struct", "opaque_struct"}) :
              LET n == macro_input.rust.items[i].name
              IN  (n \notin NamesIn(macro_output.struct_defs))
                      <=> n \in OpaqueHandles
        /\ \A i \in DeclaredItems({"enum"}) :
              macro_input.rust.items[i] \in
                  {macro_output.enum_defs[j] : j \in 1..Len(macro_output.enum_defs)}
        /\ \A i \in DeclaredItems({"struct", "opaque_struct", "enum"}) :
              LET n == macro_input.rust.items[i].name
              IN  DeclaredOnce(n) => TimesDefined(n) = 1

(***************************************************************************)
(* Claims about a failed compile step (SpecAbi)                            *)
(***************************************************************************)
LastBuild == build_log[Len(build_log)]
BuildFails ==
    /\ Len(build_log') = Len(build_log) + 1
    /\ build_log'[Len(build_log')].result = "err"

\* the hash file already held the hash of build i's code when build i began:
\* an earlier merged build compiled the same code successfully
StoredBefore(i) ==
    \E j \in 1..(i - 1) :
        /\ build_log[j].mode = "merged" /\ build_log[j].result = "ok"
        /\ build_log[j].linked # <<>>
        /\ build_log[j].zig_code = build_log[i].zig_code

\* C18: a build whose compile step fails returns an error after invoking the
\* compiler, emits no link directive and leaves the hash file as it was; the
\* build that follows it with the same foreign code invokes the compiler
\* again, unless the hash file held that code's hash before the failed build
\* began.
C18_FailedCompileLeavesNoTrace ==
    /\ [][BuildFails =>
            /\ build_log'[Len(build_log')].compiled
            /\ build_log'[Len(build_log')].linked = <<>>
            /\ hash_file' = hash_file]_vars
    /\ [](\A i \in 1..(Len(build_log) - 1) :
            (build_log[i].result = "err"
                /\ build_log[i + 1].zig_code = build_log[i].zig_code)
            => \/ build_log[i + 1].compiled
               \/ StoredBefore(i))

C18_Witness ==
    /\ Len(build_log) >= 2
    /\ build_log[1].mode = "merged" /\ build_log[1].result = "err"
    /\ build_log[2].mode = "merged" /\ build_log[2].result = "ok"
    /\ build_log[2].zig_code = build_log[1].zig_code
    /\ build_log[2].compiled
    /\ hash_file.exists

\* the latest build found the stored hash equal and skipped the compiler
SkippedCompile ==
    /\ build_log # <<>>
    /\ LastBuild.mode = "merged" /\ LastBuild.result = "ok"
    /\ ~LastBuild.compiled /\ LastBuild.linked # <<>>

\* C22: when a build has skipped the compiler because the stored hash matched,
\* the library in the output directory is what the compiler produced from the
\* code that has this hash.
C22_SkippedBuildLinksMatchingArtifact ==
    SkippedCompile =>
        /\ lib_artifact.exists
        /\ Sha256Digest(lib_artifact.compiled_from) = hash_file
        /\ lib_artifact.compiled_from = finalSource

(***************************************************************************)
(* Claims about ZigBox (SpecBox)                                           *)
(***************************************************************************)
Acceptable(buf) ==
    /\ ~is_null(buf.ptr) \/ buf.len = 0
    /\ buf.cap >= buf.len

\* C21: try_new returns Ok exactly for a buffer whose pointer is non-null or
\* whose length is 0 and whose capacity is at least its length; new panics
\* exactly for the buffers try_new rejects.
C21_TryNewAcceptsValidBuffers ==
    /\ (box_out # NoBox /\ box_out.call = "try_new") =>
          (box_out.r.kind = "Ok" <=> Acceptable(raw))
    /\ (box_out # NoBox /\ box_out.call = "new") =>
          (box_out.r.kind = "panic" <=> try_new(raw).kind = "Err")

(***************************************************************************)
(* Claims about the body of an impl method (SpecBody)                      *)
(***************************************************************************)
RECURSIVE CalleesOfExpr(_)
RECURSIVE CalleesOfStmts(_)
\* the callee names of the calls reachable through call, block, if and let
\* shapes, in the order of the text
CalleesOfStmts(stmts) ==
    IF stmts = <<>> THEN <<>>
    ELSE LET st == Head(stmts)
             here == IF st.s = "Expr" THEN CalleesOfExpr(st.expr)
                     ELSE IF st.s = "Local" /\ st.has_init
                          THEN CalleesOfExpr(st.init)
                          ELSE <<>>
         IN  here \o CalleesOfStmts(Tail(stmts))
CalleesOfExpr(expr) ==
    IF expr.e = "Call" THEN (IF expr.path THEN <<expr.name>> ELSE <<>>)
    ELSE IF expr.e = "Block" THEN CalleesOfStmts(expr.stmts)
    ELSE IF expr.e = "If"
         THEN CalleesOfExpr(expr.cond) \o CalleesOfStmts(expr.then_branch)
                \o (IF expr.has_else THEN CalleesOfExpr(expr.else_branch)
                    ELSE <<>>)
    ELSE IF expr.e = "Let" THEN CalleesOfExpr(expr.expr)
    ELSE <<>>

Separators ==
    {<<"-", "-", "-">>, <<"-", " ", "-", " ", "-">>,
     <<"-", "-", " ", "-">>, <<"-", " ", "-", "-">>}
SeparatorAt(text, i) == \E sep \in Separators : MatchesAt(text, sep, i)
HasSeparator(text) == \E i \in 1..Len(text) : SeparatorAt(text, i)
BeforeFirstSeparator(text) ==
    IF HasSeparator(text)
    THEN LET p == CHOOSE i \in 1..Len(text) :
                    /\ SeparatorAt(text, i)
                    /\ \A j \in 1..(i - 1) : ~SeparatorAt(text, j)
         IN  SubSeq(text, 1, p - 1)
    ELSE text
BlockContent == StripOuterBraces(Trim(macro_tokens))

\* C26: the foreign code taken from a block is its content before the first
\* three-token separator (trimmed, blanks after '@' removed) and nothing of
\* what follows the separator; without a separator it is the whole content.
C26_ForeignCodeIsTextBeforeSeparator ==
    (extracted # NotExtracted) =>
        LET before == Trim(BeforeFirstSeparator(BlockContent))
        IN  extracted = IF before = <<>> THEN NoZig
                        ELSE SomeZig(SkipSpaceAfterAt(before, FALSE))

(***************************************************************************)
(* Claims about the native declaration of a trait method (SpecRet)         *)
(***************************************************************************)
\* C28: the declaration of a method that forwards to f returns the mapped
\* return type of the export named exactly f when that type is one of the
\* mapped ones, and the method's own return type otherwise.
C28_ReturnTypeOfExactExport ==
    (trait_decl # NoDecl) =>
        LET exact == extract_zig_return_type_exact(zig_exports,
                                                   trait_method.zig_function)
        IN  trait_decl.return_type =
                IF exact.some THEN exact.v ELSE trait_method.output

(***************************************************************************)
(* Claims about ZigStream (SpecStream)                                     *)
(***************************************************************************)
\* what the consumer is to see for an item of the channel
Delivered(item) ==
    IF item.ok THEN OkItem(FromBytes(item.v)) ELSE ErrItem(item.v)
DeliveredSeq(items) == [i \in 1..Len(items) |-> Delivered(items[i])]
Drained == ~sender_open /\ Len(yielded) = Len(sent)

\* C19: what the stream has yielded is, item for item, the beginning of what
\* was sent, and while the stream exists the rest is still queued; the
\* stream returns None only when the sender is gone and everything sent has
\* been yielded, and it is completed then and ever after.
C19_InOrderOnceThenEnd ==
    /\ [](/\ Len(yielded) <= Len(sent)
          /\ yielded = DeliveredSeq(SubSeq(sent, 1, Len(yielded)))
          /\ stream_alive => yielded \o DeliveredSeq(channel) = DeliveredSeq(sent)
          /\ last_poll = ReadyNone => Drained /\ is_completed(stream_state))
    /\ [][is_completed(stream_state) => is_completed(stream_state')]_vars

C19_Witness ==
    /\ last_poll = ReadyNone
    /\ sent = <<OkItem("d1"), OkItem("d2"), OkItem("d1")>>
    /\ yielded = DeliveredSeq(sent)
    /\ is_completed(stream_state)

ErrYielded == \E i \in 1..Len(yielded) : ~yielded[i].ok

\* C20: an Err item sent is yielded as the same Err; after an Err has been
\* yielded the stream is still Active until it returns None, the items sent
\* after it are yielded in send order, and None is returned only when the
\* sender is gone and everything sent has been yielded.
C20_ErrorDoesNotEndStream ==
    /\ \A i \in 1..Len(yielded) :
          ~sent[i].ok => yielded[i] = ErrItem(sent[i].v)
    /\ \A i, j \in 1..Len(yielded) :
          (~yielded[i].ok /\ i < j) => yielded[j] = Delivered(sent[j])
    /\ (ErrYielded /\ stream_alive /\ last_poll # ReadyNone)
          => stream_state.k = "Active"
    /\ (ErrYielded /\ last_poll = ReadyNone) => Drained

C20_Witness ==
    /\ Len(yielded) = 2
    /\ yielded[1] = ErrItem("e1")
    /\ yielded[2] = OkItem(FromBytes("d1"))
    /\ stream_state.k = "Active" /\ stream_alive

\* C30: the state of the stream changes only from Active to Completed; a
\* poll of a completed stream returns None and leaves it completed; the
\* stream is never Failed and error() is None.
C30_ActiveThenCompletedForever ==
    /\ [][stream_state' # stream_state =>
            stream_state.k = "Active" /\ stream_state'.k = "Completed"]_vars
    /\ [][(is_completed(stream_state) /\ PollNext) =>
            last_poll' = ReadyNone /\ is_completed(stream_state')]_vars
    /\ [](stream_state.k # "Failed" /\ error(stream_state) = NoError)
    /\ []((last_poll = ReadyNone \/ (~stream_alive /\ stream_state.k # "none"))
            => is_completed(stream_state))

C30_Witness ==
    /\ stream_state.k = "Completed" /\ stream_alive
    /\ last_poll = ReadyNone
    /\ ErrYielded

(***************************************************************************)
(* Claims about the async wrapper at run time (SpecAsync, SpecAsyncFair)   *)
(***************************************************************************)
Resumed(c) == async_calls[c].caller \in {"returned", "panicked"}
TaskFailed(c) == async_calls[c].task \in {"panicked", "cancelled"}
TaskEnded(c) == async_calls[c].task \in {"done", "panicked"}

\* C13: a caller that is resumed after its task failed gets a fatal error,
\* which is none of the values the native function can return; a caller that
\* is resumed after its task completed gets exactly the value the native
\* call produced.
C13_FailureIsFatalValueIsExact ==
    \A c \in CallIds :
        Resumed(c) =>
            IF TaskFailed(c)
            THEN /\ async_calls[c].caller = "panicked"
                 /\ async_calls[c].result.kind = "fatal"
                 /\ async_calls[c].result.v \notin NativeValues
            ELSE /\ async_calls[c].task = "done"
                 /\ async_calls[c].caller = "returned"
                 /\ async_calls[c].result =
                        [kind |-> "value", v |-> async_calls[c].value]

C13_Witness ==
    \E c, d \in CallIds :
        /\ async_calls[c].task = "panicked" /\ async_calls[c].caller = "panicked"
        /\ async_calls[d].task = "done" /\ async_calls[d].caller = "returned"
        /\ async_calls[d].result.v = "r1"

\* C14: a native call that a worker has started runs to its end whether or
\* not the awaiting future is dropped meanwhile; dropping the future leaves
\* the task as it was; a caller is never resumed while its task is queued or
\* running, and a caller still awaiting a task that ended is resumed unless
\* it is dropped first.
C14_StartedCallRunsToCompletion ==
    /\ \A c \in CallIds : (async_calls[c].task = "running") ~> TaskEnded(c)
    /\ [][\A c \in CallIds :
             DropFuture(c) => async_calls'[c].task = async_calls[c].task]_vars
    /\ [](\A c \in CallIds :
             Resumed(c) => async_calls[c].task \notin {"queued", "running"})
    /\ \A c \in CallIds :
          (async_calls[c].caller = "awaiting" /\ TaskEnded(c))
              ~> (async_calls[c].caller # "awaiting")

C14_Witness ==
    \E c \in CallIds :
        /\ async_calls[c].caller = "dropped"
        /\ async_calls[c].dropped_at = "running"
        /\ async_calls[c].task = "done"

(***************************************************************************)
(* Claims about monomorphization (SpecMono)                                *)
(***************************************************************************)
Expanded == mono_state = "expanded" /\ mono_types # <<>>

PairwiseDistinct(seq) ==
    \A a, b \in 1..Len(seq) : a # b => seq[a] # seq[b]

DeclNames == [t \in 1..Len(mono_decls) |-> mono_decls[t].name]
WrapperNames == [t \in 1..Len(mono_wrappers) |-> mono_wrappers[t].name]

\* C4: a generic declaration listing k pairwise-distinct concrete types
\* yields exactly k native declarations and k wrappers, and the k mangled
\* names are pairwise distinct.
C4_DistinctTypesDistinctNames ==
    (Expanded /\ PairwiseDistinct(mono_types)) =>
        /\ Len(mono_decls) = Len(mono_types)
        /\ Len(mono_wrappers) = Len(mono_types)
        /\ PairwiseDistinct(DeclNames)
        /\ PairwiseDistinct(WrapperNames)

\* C5: a list naming the same concrete type twice is rejected as an input
\* error; it is neither deduplicated silently nor expanded into two
\* specializations with the same mangled name.
C5_DuplicateTypeRejected ==
    (mono_state \in {"expanded", "panicked"} /\ ~PairwiseDistinct(mono_types)) =>
        /\ mono_state = "panicked"
        /\ mono_decls = <<>> /\ mono_wrappers = <<>>

(***************************************************************************)
(* Claims about incremental builds (SpecAbi)                               *)
(***************************************************************************)
\* builds i and i+1 are two consecutive builds in one mode over the same
\* aggregated foreign code, the first of them successful
SameTextRebuild(i) ==
    /\ i + 1 <= Len(build_log)
    /\ build_log[i].zig_code = build_log[i + 1].zig_code
    /\ build_log[i].mode = build_log[i + 1].mode
    /\ build_log[i].result = "ok"

\* C6: of two consecutive builds over the same output directory with
\* byte-identical aggregated foreign code, the first successful, the second
\* does not invoke the compiler and emits the same link instructions as the
\* first, in whichever compilation mode.
C6_UnchangedCodeSkipsCompile ==
    \A i \in 1..Len(build_log) :
        SameTextRebuild(i) =>
            /\ ~build_log[i + 1].compiled
            /\ build_log[i + 1].result = "ok"
            /\ build_log[i + 1].linked = build_log[i].linked

(***************************************************************************)
(* Claims about opaque handles (SpecOpaque)                                *)
(***************************************************************************)
HandleExists(h) == handles[h].state \in {"live", "dropped"}

\* C7: when the allocation function returns null the constructor raises a
\* fatal condition and produces no handle; every handle that exists holds,
\* from construction to destruction, the non-null pointer it was built from.
C7_NoHandleFromNull ==
    \A h \in HandleIds :
        /\ handles[h].alloc = NullPtr =>
              handles[h].state = "failed" /\ handles[h].inner = "none"
        /\ HandleExists(h) =>
              /\ handles[h].inner # NullPtr
              /\ handles[h].inner \in Addrs
              /\ handles[h].inner = handles[h].alloc

\* one construction failed on a null pointer while another handle exists
C7_Witness ==
    \E a, b \in HandleIds :
        /\ handles[a].state = "failed" /\ handles[a].alloc = NullPtr
        /\ handles[b].state = "dropped" /\ handles[b].inner \in Addrs

DtorCalls(h) == SelectSeq(dtor_log, LAMBDA c : c.handle = h)

\* C8: with a destructor declared, the foreign destructor is invoked exactly
\* once, with the handle's inner pointer, when the handle's scope ends, on
\* every exit path; never before, never twice, never skipped.
C8_DestructorExactlyOnce ==
    has_destructor =>
        \A h \in HandleIds :
            /\ handles[h].state = "dropped" =>
                  DtorCalls(h) = <<[handle |-> h, arg |-> handles[h].inner]>>
            /\ handles[h].state # "dropped" => DtorCalls(h) = <<>>

\* two handles were released on different exit paths, one of them unwinding
C8_Witness ==
    /\ has_destructor
    /\ \E a, b \in HandleIds :
          /\ handles[a].state = "dropped" /\ handles[a].exit = "unwinding"
          /\ handles[b].state = "dropped" /\ handles[b].exit = "early_return"
          /\ Len(dtor_log) = 2

(***************************************************************************)
(* Claims about the scanner (SpecScan)                                     *)
(***************************************************************************)
OkBlocks(file) == IF file.status = "ok" THEN file.zig_code ELSE <<>>
\* the embedded blocks of the files that can be read and parsed, in walk order
GoodBlocks == FlatMap(OkBlocks, scan_dir)

ReturnedBlocks ==
    IF scan_result.kind = "Modular" THEN scan_result.embedded_code
    ELSE SubSeq(scan_result.code, 1, Len(GoodBlocks))

Diagnosed(file) ==
    \E w \in 1..Len(scan_warnings) :
        /\ scan_warnings[w].warning \in {"Failed to parse", "Failed to read"}
        /\ scan_warnings[w].path = file.name

\* C10: a scan never aborts on one bad source file: a file that cannot be
\* read as text or cannot be parsed is reported and skipped, and the embedded
\* blocks of every other file are returned in a successful result.
C10_BadFileIsolated ==
    scan_result.returned =>
        /\ scan_result.ok
        /\ ReturnedBlocks = GoodBlocks
        /\ \A i \in 1..Len(scan_dir) :
              scan_dir[i].status # "ok" => Diagnosed(scan_dir[i])

(***************************************************************************)
(* Whole pipeline                                                          *)
(***************************************************************************)
\* each specification explores one area and holds the others idle
AbiOnly ==
    AbiInit /\ LowerIdle /\ MonoIdle /\ OpaqueIdle /\ ScanIdle /\ AsyncIdle
        /\ EntryIdle /\ StreamIdle /\ BoxIdle
        /\ BodyIdle /\ TokIdle /\ RetIdle
LowerOnly ==
    LowerInit /\ AbiIdle /\ MonoIdle /\ OpaqueIdle /\ ScanIdle /\ AsyncIdle
        /\ EntryIdle /\ StreamIdle /\ BoxIdle
        /\ BodyIdle /\ TokIdle /\ RetIdle
MonoOnly ==
    MonoInit /\ AbiIdle /\ LowerIdle /\ OpaqueIdle /\ ScanIdle /\ AsyncIdle
        /\ EntryIdle /\ StreamIdle /\ BoxIdle
        /\ BodyIdle /\ TokIdle /\ RetIdle
OpaqueOnly ==
    OpaqueInit /\ AbiIdle /\ LowerIdle /\ MonoIdle /\ ScanIdle /\ AsyncIdle
        /\ EntryIdle /\ StreamIdle /\ BoxIdle
        /\ BodyIdle /\ TokIdle /\ RetIdle
ScanOnly ==
    ScanInit /\ AbiIdle /\ LowerIdle /\ MonoIdle /\ OpaqueIdle /\ AsyncIdle
        /\ EntryIdle /\ StreamIdle /\ BoxIdle
        /\ BodyIdle /\ TokIdle /\ RetIdle
AsyncOnly ==
    AsyncInit /\ AbiIdle /\ LowerIdle /\ MonoIdle /\ OpaqueIdle /\ ScanIdle
        /\ EntryIdle /\ StreamIdle /\ BoxIdle
        /\ BodyIdle /\ TokIdle /\ RetIdle
EntryOnly ==
    EntryInit /\ AbiIdle /\ LowerIdle /\ MonoIdle /\ OpaqueIdle /\ ScanIdle
        /\ AsyncIdle /\ StreamIdle /\ BoxIdle
        /\ BodyIdle /\ TokIdle /\ RetIdle
StreamOnly ==
    StreamInit /\ AbiIdle /\ LowerIdle /\ MonoIdle /\ OpaqueIdle /\ ScanIdle
        /\ AsyncIdle /\ EntryIdle /\ BoxIdle /\ BodyIdle /\ TokIdle /\ RetIdle
BoxOnly ==
    BoxInit /\ AbiIdle /\ LowerIdle /\ MonoIdle /\ OpaqueIdle /\ ScanIdle
        /\ AsyncIdle /\ EntryIdle /\ StreamIdle /\ BodyIdle /\ TokIdle
        /\ RetIdle
BodyOnly ==
    BodyInit /\ AbiIdle /\ LowerIdle /\ MonoIdle /\ OpaqueIdle /\ ScanIdle
        /\ AsyncIdle /\ EntryIdle /\ StreamIdle /\ BoxIdle /\ TokIdle
        /\ RetIdle
TokOnly ==
    TokInit /\ AbiIdle /\ LowerIdle /\ MonoIdle /\ OpaqueIdle /\ ScanIdle
        /\ AsyncIdle /\ EntryIdle /\ StreamIdle /\ BoxIdle /\ BodyIdle
        /\ RetIdle
RetOnly ==
    RetInit /\ AbiIdle /\ LowerIdle /\ MonoIdle /\ OpaqueIdle /\ ScanIdle
        /\ AsyncIdle /\ EntryIdle /\ StreamIdle /\ BoxIdle /\ BodyIdle
        /\ TokIdle

SpecAbi == AbiOnly /\ [][AbiNext]_vars
SpecLower == LowerOnly /\ [][LowerNext]_vars
SpecMono == MonoOnly /\ [][MonoNext]_vars
SpecOpaque == OpaqueOnly /\ [][OpaqueNext]_vars
SpecScan == ScanOnly /\ [][ScanNext]_vars
SpecAsync == AsyncOnly /\ [][AsyncNext]_vars
SpecEntry == EntryOnly /\ [][EntryNext]_vars
SpecStream == StreamOnly /\ [][StreamNext]_vars
SpecBox == BoxOnly /\ [][BoxNext]_vars
SpecBody == BodyOnly /\ [][BodyNext]_vars
SpecTok == TokOnly /\ [][TokNext]_vars
SpecRet == RetOnly /\ [][RetNext]_vars
\* the blocking pool runs every closure it has started, and the executor
\* polls a woken future that still exists
SpecAsyncFair ==
    SpecAsync /\ \A c \in CallIds : WF_vars(WorkerFinish(c)) /\ WF_vars(Resume(c))

Init ==
    AbiInit /\ LowerInit /\ MonoInit /\ OpaqueInit /\ ScanInit /\ AsyncInit
        /\ EntryInit /\ StreamInit /\ BoxInit
        /\ BodyInit /\ TokInit /\ RetInit
Next ==
    AbiNext \/ LowerNext \/ MonoNext \/ OpaqueNext \/ ScanNext \/ AsyncNext
        \/ EntryNext \/ StreamNext \/ BoxNext
        \/ BodyNext \/ TokNext \/ RetNext
Spec == Init /\ [][Next]_vars

====
